---- MODULE Spec2Model ----
(***************************************************************************)
(* Model of the procedural video-composition pipeline of the repository:   *)
(*   server/services/video-simple.ts  (slideshow service, wired to routes) *)
(*   server/services/video.ts         (audio + visuals variant)            *)
(*   server/services/video-text.ts    (text overlay variant)               *)
(*   server/routes.ts, server/storage.ts (generate routes, /videos, items) *)
(*                                                                         *)
(* Strings are sequences of one-character strings.  Durations are kept in  *)
(* units of 1/30 second (TicksPerSecond), so that length / 15,             *)
(* wordCount / 2.5 and the half-second fades are exact integers.           *)
(***************************************************************************)
EXTENDS Integers, Sequences, FiniteSets, TLC

VARIABLES
  now,        \* Date.now(): the millisecond clock
  calls,      \* one record per generateVideo / generateCompilationVideo call
  disk,       \* ./generated-videos: path -> what the last write put there
  segPc,      \* segmenter harness: "call" before, "return" after
  segFn,      \* segmenter harness: which segmenter is applied
  segArgs,    \* segmenter harness: the options it is applied to
  segResult,  \* segmenter harness: what it returned (or threw)
  contentItems,          \* MemStorage.contentItems: id -> content item
  currentContentItemId,  \* MemStorage.currentContentItemId
  post,       \* the POST request to a generate route and its response
  get,        \* the last GET under /videos and its response
  pipe,       \* one generateVideo call of video.ts or video-text.ts
  crud,       \* the last PUT / DELETE /api/content-items/:id and its response
  fetches,    \* the POST /api/news-sources/:id/fetch requests in flight
  accessToken,  \* RedditService.accessToken
  tokenExpiry,  \* RedditService.tokenExpiry
  reddit      \* the RedditService.makeRequest calls in flight

vars ==
  <<now, calls, disk, segPc, segFn, segArgs, segResult, contentItems,
    currentContentItemId, post, get, pipe, crud, fetches, accessToken,
    tokenExpiry, reddit>>

serviceVars == <<now, calls, disk>>

segVars == <<segPc, segFn, segArgs, segResult>>

routeVars == <<contentItems, currentContentItemId, post, get>>

laterVars == <<crud, fetches, accessToken, tokenExpiry, reddit>>

(***************************************************************************)
(* Bounds of the model.                                                    *)
(***************************************************************************)
MaxSentences == 4

MaxWords == 1000

MaxArticles == 3

(***************************************************************************)
(* JavaScript values and string primitives.                                *)
(***************************************************************************)
\* The value undefined: a one-element sequence that is no string of characters.
Undefined == <<"undefined">>

Min2(a, b) == IF a < b THEN a ELSE b

Max2(a, b) == IF a > b THEN a ELSE b

\* a || b on strings: "" and undefined are falsy
OrElse(a, b) == IF a = <<>> \/ a = Undefined THEN b ELSE a

\* String.prototype.trim strips these
IsWhitespace(c) == c \in {" ", "\t", "\n", "\r"}

Trim(s) ==
  LET idx == {i \in 1..Len(s) : ~IsWhitespace(s[i])}
  IN  IF idx = {} THEN <<>>
      ELSE LET first == CHOOSE i \in idx : \A k \in 1..(i - 1) : IsWhitespace(s[k])
               last  == CHOOSE i \in idx : \A k \in (i + 1)..Len(s) : IsWhitespace(s[k])
           IN  SubSeq(s, first, last)

\* the character class [.!?]
IsTerminator(c) == c \in {".", "!", "?"}

\* s.split(/[.!?]+/): the maximal runs of non-terminators, with an empty
\* string in front when s starts with a terminator and one at the end when
\* it ends with one; "".split(...) is [""].
SplitSentences(s) ==
  IF s = <<>> THEN << <<>> >>
  ELSE
    LET n      == Len(s)
        starts == {i \in 1..n : ~IsTerminator(s[i]) /\ (i = 1 \/ IsTerminator(s[i - 1]))}
        ends   == {j \in 1..n : ~IsTerminator(s[j]) /\ (j = n \/ IsTerminator(s[j + 1]))}
        Nth(S, k) == CHOOSE x \in S : Cardinality({y \in S : y < x}) = k - 1
        frags  == [k \in 1..Cardinality(starts) |-> SubSeq(s, Nth(starts, k), Nth(ends, k))]
        lead   == IF IsTerminator(s[1]) THEN << <<>> >> ELSE <<>>
        trail  == IF IsTerminator(s[n]) THEN << <<>> >> ELSE <<>>
    IN  lead \o frags \o trail

\* array.slice(from, to) with 0-based from, exclusive to
Slice(a, from, to) == SubSeq(a, from + 1, Min2(to, Len(a)))

RECURSIVE Join(_, _)
\* array.join(sep)
Join(a, sep) ==
  IF a = <<>> THEN <<>>
  ELSE IF Len(a) = 1 THEN a[1]
  ELSE a[1] \o sep \o Join(Tail(a), sep)

\* s.split(' ').length
WordCount(s) == 1 + Cardinality({i \in 1..Len(s) : s[i] = " "})

Digit(d) == <<"0", "1", "2", "3", "4", "5", "6", "7", "8", "9">>[d + 1]

RECURSIVE NumberToString(_)
\* `${n}` for a non-negative integer
NumberToString(n) ==
  IF n < 10 THEN <<Digit(n)>>
  ELSE NumberToString(n \div 10) \o <<Digit(n % 10)>>

RECURSIVE SumDurations(_)
\* reduce((sum, x) => sum + x.duration, 0)
SumDurations(items) ==
  IF items = <<>> THEN 0 ELSE items[1].duration + SumDurations(Tail(items))

(***************************************************************************)
(* Durations.                                                              *)
(***************************************************************************)
\* the unit of durations is 1/30 second: length / 15, wordCount / 2.5 and the
\* half-second fades are whole numbers of it
TicksPerSecond == 30

SecondsLost(n) == 0

Seconds(n) == n * TicksPerSecond

\* .filter(s => s.trim().length > 10)
SentenceMinLength == 10

KeepAnySentence(s) == TRUE

KeepSentenceOfTen(s) == Len(Trim(s)) >= SentenceMinLength

KeepSentence(s) == Len(Trim(s)) > SentenceMinLength

\* sentences grouped by 2: for (i = 0; i < sentences.length; i += 2)
BatchSize == 2

\* content.split(/[.!?]+/).filter(...)
Sentences(content) == SelectSeq(SplitSentences(content), KeepSentence)

\* sentences.slice(i, i + 2).join('. ').trim() for i = 0, 2, 4, ...
BatchTexts(sentences) ==
  [j \in 1..((Len(sentences) + BatchSize - 1) \div BatchSize) |->
     Trim(Join(Slice(sentences, (j - 1) * BatchSize, (j - 1) * BatchSize + BatchSize),
               <<".", " ">>))]

NonEmptyText(t) == t # <<>>

(***************************************************************************)
(* video-simple.ts: createContentSlides, createCompilationSlides.          *)
(***************************************************************************)
TypeErrorSplit ==
  <<"C","a","n","n","o","t"," ","r","e","a","d"," ","p","r","o","p","e","r","t","i","e","s",
    " ","o","f"," ","u","n","d","e","f","i","n","e","d"," ","(","r","e","a","d","i","n","g",
    " ","'","s","p","l","i","t","'",")">>

BreakingNews == <<"B","R","E","A","K","I","N","G"," ","N","E","W","S">>

WhatDoYouThink ==
  <<"W","h","a","t"," ","d","o"," ","y","o","u"," ","t","h","i","n","k","?">>

LikeAndSubscribe ==
  <<"L","i","k","e"," ","&"," ","S","u","b","s","c","r","i","b","e"," ","f","o","r"," ",
    "m","o","r","e"," ","n","e","w","s","!">>

\* Math.max(4, slideText.length / 15)
ContentSlideDuration(slideText) ==
  Max2(Seconds(4), (Len(slideText) * TicksPerSecond) \div 15)

ContentSlide(slideText) ==
  [type |-> "content", text |-> slideText, subtitle |-> <<>>,
   duration |-> ContentSlideDuration(slideText)]

createContentSlides(options) ==
  IF options.content = Undefined
  THEN \* content.split: TypeError
       [threw |-> TRUE, message |-> TypeErrorSplit, slides |-> <<>>]
  ELSE
    LET texts == SelectSeq(BatchTexts(Sentences(options.content)), NonEmptyText)
    IN  [threw |-> FALSE, message |-> <<>>,
         slides |->
           <<[type |-> "title", text |-> OrElse(options.thumbnailText, options.title),
              subtitle |-> BreakingNews, duration |-> Seconds(3)],
             [type |-> "hook", text |-> options.hook, subtitle |-> <<>>,
              duration |-> Seconds(5)]>>
           \o [j \in 1..Len(texts) |-> ContentSlide(texts[j])]
           \o <<[type |-> "cta", text |-> WhatDoYouThink, subtitle |-> LikeAndSubscribe,
                 duration |-> Seconds(3)]>>]

SourcePrefix == <<"S","o","u","r","c","e",":"," ">>

\* the four slides pushed for articles[index] (index 0-based)
ArticleSlides(article, index) ==
  <<[type |-> "number", text |-> <<"#">> \o NumberToString(index + 1),
     background |-> "gradient-purple", duration |-> Seconds(2)],
    [type |-> "subtitle", text |-> article.title,
     background |-> "gradient-blue", duration |-> Seconds(5)],
    [type |-> "content", text |-> article.content,
     background |-> "gradient-green", duration |-> Seconds(6)],
    [type |-> "source", text |-> SourcePrefix \o article.source,
     background |-> "gradient-gray", duration |-> Seconds(2)]>>

RECURSIVE AllArticleSlidesReversed(_, _)
AllArticleSlidesReversed(articles, index) ==
  IF index >= Len(articles) THEN <<>>
  ELSE AllArticleSlidesReversed(articles, index + 1)
       \o ArticleSlides(articles[index + 1], index)

RECURSIVE AllArticleSlides(_, _)
\* articles.forEach((article, index) => ...), from 0-based index `index` on
AllArticleSlides(articles, index) ==
  IF index >= Len(articles) THEN <<>>
  ELSE ArticleSlides(articles[index + 1], index) \o AllArticleSlides(articles, index + 1)

createCompilationSlides(options) ==
  [threw |-> FALSE, message |-> <<>>,
   slides |->
     <<[type |-> "title", text |-> options.hook,
        background |-> "gradient-red", duration |-> Seconds(3)],
       [type |-> "title", text |-> options.compilationTitle,
        background |-> "gradient-blue", duration |-> Seconds(4)]>>
     \o AllArticleSlides(options.articles, 0)
     \o <<[type |-> "closing", text |-> options.thumbnailText,
           background |-> "gradient-red", duration |-> Seconds(4)]>>]

(***************************************************************************)
(* video.ts: createVideoSegments.                                          *)
(***************************************************************************)
\* Math.max(8, Math.min(20, wordCount / avgWordsPerSecond)), avgWordsPerSecond = 2.5
SegmentDurationUnclamped(wordCount) == (wordCount * TicksPerSecond * 2) \div 5

SegmentDuration(wordCount) ==
  Max2(Seconds(8), Min2(Seconds(20), (wordCount * TicksPerSecond * 2) \div 5))

RECURSIVE BodySegments(_, _)
\* the loop body of createVideoSegments over the batch texts, from currentTime on
BodySegments(texts, currentTime) ==
  IF texts = <<>> THEN <<>>
  ELSE IF texts[1] = <<>> THEN BodySegments(Tail(texts), currentTime)
  ELSE LET d == SegmentDuration(WordCount(texts[1]))
       IN  <<[text |-> texts[1], startTime |-> currentTime, duration |-> d]>>
           \o BodySegments(Tail(texts), currentTime + d)

createVideoSegments(options) ==
  IF options.content = Undefined
  THEN [threw |-> TRUE, message |-> TypeErrorSplit, segments |-> <<>>]
  ELSE [threw |-> FALSE, message |-> <<>>,
        segments |->
          <<[text |-> options.hook, startTime |-> 0, duration |-> Seconds(15)]>>
          \o BodySegments(BatchTexts(Sentences(options.content)), Seconds(15))]

(***************************************************************************)
(* video-simple.ts: the slideshow service.  Each call is a process; an     *)
(* action runs a call from one suspension point (await) to the next.       *)
(***************************************************************************)
CallIds == {"c1", "c2"}

MaxClock == 1

OutputDirName == <<"g","e","n","e","r","a","t","e","d","-","v","i","d","e","o","s">>

\* join(this.outputDir, name) with outputDir './generated-videos'
JoinOutputDir(name) == OutputDirName \o <<"/">> \o name

\* `video_${Date.now()}` and `compilation_${Date.now()}`
VideoId(prefix, t) == prefix \o NumberToString(t)

VideoPrefix == <<"v","i","d","e","o","_">>

CompilationPrefix == <<"c","o","m","p","i","l","a","t","i","o","n","_">>

Mp4 == <<".","m","p","4">>

\* join(this.outputDir, `${videoId}_slide_${i}.png`)
SlideImagePath(videoId, i) ==
  JoinOutputDir(videoId \o <<"_","s","l","i","d","e","_">> \o NumberToString(i)
                \o <<".","p","n","g">>)

VideoGenerationFailed ==
  <<"V","i","d","e","o"," ","g","e","n","e","r","a","t","i","o","n"," ","f","a","i","l","e","d",
    ":"," ">>

CompilationGenerationFailed ==
  <<"C","o","m","p","i","l","a","t","i","o","n"," ","v","i","d","e","o"," ","g","e","n","e","r",
    "a","t","i","o","n"," ","f","a","i","l","e","d",":"," ">>

VideoCompositionFailed ==
  <<"V","i","d","e","o"," ","c","o","m","p","o","s","i","t","i","o","n"," ","f","a","i","l","e",
    "d",":"," ">>

\* catch (error) { throw new Error(`... failed: ${error.message}`) }
WrapFailureDropped(kind, message) ==
  IF kind = "compilation" THEN CompilationGenerationFailed ELSE VideoGenerationFailed

WrapFailure(kind, message) ==
  (IF kind = "compilation" THEN CompilationGenerationFailed ELSE VideoGenerationFailed)
  \o message

\* reject(new Error(`Video composition failed: ${err.message}`))
CompositionError(message) == VideoCompositionFailed \o message

\* const slideDurations = [3, 5, 4, 4, 4, 3]
SlideDurations ==
  <<Seconds(3), Seconds(5), Seconds(4), Seconds(4), Seconds(4), Seconds(3)>>

RECURSIVE SumSeq(_)
\* slideDurations.reduce((sum, dur) => sum + dur, 0)
SumSeq(s) == IF s = <<>> THEN 0 ELSE s[1] + SumSeq(Tail(s))

TotalDurationFirstSlide == SlideDurations[1]

TotalDuration == SumSeq(SlideDurations)

\* slideDurations[i] || 4, i 0-based
SlideDurationAt(i) == IF i < Len(SlideDurations) THEN SlideDurations[i + 1] ELSE Seconds(4)

(***************************************************************************)
(* The filter graph of createSlideshowVideo: a sequence of filter chains   *)
(* [ins -> ops -> out], in the order they are appended to filterComplex.   *)
(***************************************************************************)
Label(name, i) == [name |-> name, i |-> i]

InputPadShifted(i) == Label("in", i + 1)

\* the input pad [i:v]
InputPad(i) == Label("in", i)

\* previousOutput = ''
NoLabel == Label("", 0)

VFinal == Label("vfinal", 0)

HalfSecond == TicksPerSecond \div 2

ScaleOps ==
  <<[f |-> "scale", w |-> 1920, h |-> 1080], [f |-> "setpts"]>>

FadeIn == [f |-> "fade", t |-> "in", st |-> 0, d |-> HalfSecond]

FadeOut(duration) == [f |-> "fade", t |-> "out", st |-> duration - HalfSecond, d |-> HalfSecond]

Hold(duration) == [f |-> "tpad", stop_mode |-> "clone", stop_duration |-> duration]

ConcatOp == [f |-> "concat", n |-> 2, v |-> 1, a |-> 0]

\* the chains appended for slide i (0-based), given previousOutput
SlideChainsSwapped(i, previousOutput) ==
  <<[ins |-> <<InputPad(i)>>,
     ops |-> ScaleOps \o <<FadeIn, FadeOut(SlideDurationAt(i))>>, out |-> Label("v", i)],
    [ins |-> <<Label("v", i)>>, ops |-> <<Hold(SlideDurationAt(i))>>,
     out |-> Label("vtemp", i)]>>
  \o (IF i = 0 THEN <<[ins |-> <<Label("vtemp", i)>>, ops |-> <<[f |-> "null"]>>,
                       out |-> Label("vout", i)]>>
      ELSE <<[ins |-> <<Label("vtemp", i), previousOutput>>, ops |-> <<ConcatOp>>,
              out |-> Label("vout", i)]>>)

\* the chains forEach appends for slide i
SlideChains(i, previousOutput) ==
  IF i = 0
  THEN <<[ins |-> <<InputPad(i)>>, ops |-> ScaleOps \o <<FadeIn>>, out |-> Label("v", i)],
         [ins |-> <<Label("v", i)>>, ops |-> <<Hold(SlideDurationAt(i))>>,
          out |-> Label("vout", i)]>>
  ELSE <<[ins |-> <<InputPad(i)>>,
          ops |-> ScaleOps \o <<FadeIn, FadeOut(SlideDurationAt(i))>>, out |-> Label("v", i)],
         [ins |-> <<Label("v", i)>>, ops |-> <<Hold(SlideDurationAt(i))>>,
          out |-> Label("vtemp", i)],
         [ins |-> <<previousOutput, Label("vtemp", i)>>, ops |-> <<ConcatOp>>,
          out |-> Label("vout", i)]>>

RECURSIVE FilterChains(_, _, _)
\* slidePaths.forEach((_, i) => ...) from index i on, then the fps chain
FilterChains(n, i, previousOutput) ==
  IF i >= n
  THEN <<[ins |-> <<previousOutput>>, ops |-> <<[f |-> "fps", fps |-> 30]>>, out |-> VFinal]>>
  ELSE SlideChains(i, previousOutput) \o FilterChains(n, i + 1, Label("vout", i))

\* the ffmpeg command createSlideshowVideo builds and runs
SlideshowCommand(slidePaths, outputPath) ==
  [inputs |-> slidePaths,
   filterComplex |-> FilterChains(Len(slidePaths), 0, NoLabel),
   map |-> VFinal,
   output |-> outputPath]

RECURSIVE StreamOf(_, _)
\* what ffmpeg plays for a label of the graph: the input indices, in order
StreamOf(label, chains) ==
  IF label.name = "in" THEN <<label.i>>
  ELSE IF \A k \in 1..Len(chains) : chains[k].out # label THEN <<>>
  ELSE LET chain == chains[CHOOSE k \in 1..Len(chains) : chains[k].out = label]
       IN  IF Len(chain.ins) = 2
           THEN StreamOf(chain.ins[1], chains) \o StreamOf(chain.ins[2], chains)
           ELSE StreamOf(chain.ins[1], chains)

(***************************************************************************)
(* Calls.                                                                  *)
(***************************************************************************)
\* before createSlideshowVideo has built its command
NoCommand == [inputs |-> <<>>, filterComplex |-> <<>>, map |-> NoLabel, output |-> <<>>]

\* before the call has returned
NoReturn == [videoPath |-> <<>>, duration |-> 0, relativePath |-> <<>>]

\* rendered: the createSlideImage calls made; written: the paths the call wrote;
\* encoderErrors: the err.message values ffmpeg reported to the call
IdleCall ==
  [pc |-> "idle", kind |-> "none", options |-> <<>>, videoId |-> <<>>, outputPath |-> <<>>,
   slides |-> <<>>, rendered |-> <<>>, slidePaths |-> <<>>, command |-> NoCommand,
   written |-> {}, encoderErrors |-> <<>>, attempts |-> <<>>, failures |-> <<>>,
   result |-> NoReturn, error |-> <<>>]

ServiceInit ==
  /\ now = 0
  /\ calls = [c \in CallIds |-> IdleCall]
  /\ disk = <<>>

\* no request has been handled yet; MemStorage starts without content items
NoResponse ==
  [status |-> 0, body |-> [success |-> FALSE, error |-> <<>>, videoPath |-> <<>>,
                           duration |-> 0, articleCount |-> 0]]

NoPost == [pc |-> "none", route |-> "none", id |-> 0, body |-> <<>>, response |-> NoResponse]

NoGet == [path |-> <<>>, status |-> 0, error |-> <<>>, reachedStatic |-> FALSE, file |-> <<>>]

RoutesInit ==
  /\ contentItems = <<>>
  /\ currentContentItemId = 1
  /\ post = NoPost
  /\ get = NoGet

\* attempts: the stages the call has started, in order; failures: the
\* stage failures it has seen
IdlePipe ==
  [variant |-> "none", pc |-> "idle", options |-> <<>>, videoId |-> <<>>,
   segments |-> <<>>, visualPaths |-> <<>>, command |-> NoCommand,
   attempts |-> <<>>, failures |-> <<>>, audio |-> "none",
   result |-> NoReturn, error |-> <<>>]

PipeInit == pipe = IdlePipe

\* Date.now() advances
Tick ==
  /\ now < MaxClock
  /\ now' = now + 1
  /\ UNCHANGED <<calls, disk, segVars, routeVars, pipe, laterVars>>

WriteFileAlone(d, path, data) == [p \in {path} |-> data]

\* writing `data` to `path`
WriteFile(d, path, data) ==
  [p \in (DOMAIN d) \cup {path} |-> IF p = path THEN data ELSE d[p]]

\* generateSlideImages: slidePaths.push(imagePath)
PushPathFront(slidePaths, imagePath) == <<imagePath>> \o slidePaths

PushPath(slidePaths, imagePath) == Append(slidePaths, imagePath)

\* the start of generateVideo / generateCompilationVideo, up to the first await:
\* the job id from the clock, the segmenter, and the catch block when it throws
StartedCall(call, kind, prefix, options, segmented) ==
  LET videoId == VideoId(prefix, now)
      started == [call EXCEPT !.kind = kind, !.options = options,
                              !.videoId = videoId,
                              !.outputPath = JoinOutputDir(videoId \o Mp4)]
  IN  IF segmented.threw
      THEN [started EXCEPT !.pc = "rejected",
                           !.attempts = <<"segmentation">>,
                           !.failures = <<[stage |-> "segmentation",
                                           message |-> segmented.message]>>,
                           !.error = WrapFailure(kind, segmented.message)]
      ELSE [started EXCEPT !.pc = "rendering", !.slides = segmented.slides,
                           !.attempts = <<"segmentation", "rendering">>]

(***************************************************************************)
(* Inputs of the service.                                                  *)
(***************************************************************************)
OneTwoThreeFour ==
  <<"O","n","e","."," ","T","w","o","."," ","T","h","r","e","e","."," ","F","o","u","r",".">>

FourLongSentences ==
  <<"S","e","n","t","e","n","c","e"," ","o","n","e",".",
    " ","s","e","c","o","n","d"," ","f","a","c","t","!",
    " ","t","h","i","r","d"," ","p","o","i","n","t","?",
    " ","f","o","u","r","t","h"," ","c","l","a","i","m",".">>

ScenarioA == [title |-> <<"X">>, content |-> <<>>, hook |-> <<>>, thumbnailText |-> <<>>]

ScenarioB ==
  [title |-> <<"T">>, content |-> OneTwoThreeFour, hook |-> <<"H">>, thumbnailText |-> <<"C">>]

VideoInputs ==
  { ScenarioA, ScenarioB,
    [ScenarioB EXCEPT !.content = Undefined],
    [ScenarioB EXCEPT !.content = FourLongSentences] }

ArticleOne ==
  [title |-> <<"A","1">>, content |-> <<"b","o","d","y"," ","1">>,
   source |-> <<"B","B","C">>, publishedAt |-> <<"2","0","2","5">>]

ServiceCompilationInputs ==
  { [articles |-> <<ArticleOne>>, compilationTitle |-> <<"T","o","p">>,
     hook |-> <<"H">>, thumbnailText |-> <<"C">>] }

\* err.message of the encoder, and of a failed write stream
EncoderMessages ==
  { <<"d","i","s","k"," ","f","u","l","l">>,
    <<"C","o","n","v","e","r","s","i","o","n"," ","f","a","i","l","e","d","!">> }

WriteMessages ==
  { <<"E","A","C","C","E","S",":"," ","p","e","r","m","i","s","s","i","o","n"," ","d","e","n",
      "i","e","d">> }

(***************************************************************************)
(* The actions of the service.                                             *)
(***************************************************************************)
generateVideo(c) ==
  \E options \in VideoInputs :
    /\ calls[c].pc = "idle"
    /\ calls' = [calls EXCEPT ![c] =
         StartedCall(@, "video", VideoPrefix, options, createContentSlides(options))]
    /\ UNCHANGED <<now, disk, segVars, routeVars, pipe, laterVars>>

generateCompilationVideo(c) ==
  \E options \in ServiceCompilationInputs :
    /\ calls[c].pc = "idle"
    /\ calls' = [calls EXCEPT ![c] =
         StartedCall(@, "compilation", CompilationPrefix, options,
                     createCompilationSlides(options))]
    /\ UNCHANGED <<now, disk, segVars, routeVars, pipe, laterVars>>

\* createSlideImage(slides[i], imagePath, i) finishes its write; the loop of
\* generateSlideImages goes on, and after the last slide createSlideshowVideo
\* builds the command and runs ffmpeg
SlideImageFinish(c) ==
  LET call      == calls[c]
      i         == Len(call.slidePaths)
      imagePath == SlideImagePath(call.videoId, i)
      paths     == PushPath(call.slidePaths, imagePath)
      drawn     == [call EXCEPT
                      !.rendered = Append(@, [slide |-> call.slides[i + 1],
                                              path |-> imagePath, index |-> i]),
                      !.slidePaths = paths,
                      !.written = @ \cup {imagePath}]
  IN  /\ call.pc = "rendering"
      /\ i < Len(call.slides)
      /\ disk' = WriteFile(disk, imagePath, [by |-> c, kind |-> "png", index |-> i])
      /\ calls' = [calls EXCEPT ![c] =
           IF i + 1 < Len(call.slides) THEN drawn
           ELSE [drawn EXCEPT !.pc = "encoding",
                              !.attempts = Append(@, "composition"),
                              !.command = SlideshowCommand(paths, call.outputPath)]]
      /\ UNCHANGED <<now, segVars, routeVars, pipe, laterVars>>

\* the write stream of createSlideImage emits 'error'
SlideImageError(c) ==
  \E m \in WriteMessages :
    /\ calls[c].pc = "rendering"
    /\ calls' = [calls EXCEPT ![c] =
         [@ EXCEPT !.pc = "rejected",
                   !.failures = Append(@, [stage |-> "rendering", message |-> m]),
                   !.error = WrapFailure(calls[c].kind, m)]]
    /\ UNCHANGED <<now, disk, segVars, routeVars, pipe, laterVars>>

\* ffmpeg 'end': resolve(totalDuration)
FfmpegEnd(c) ==
  LET call == calls[c]
  IN  /\ call.pc = "encoding"
      /\ disk' = WriteFile(disk, call.command.output, [by |-> c, kind |-> "mp4", index |-> 0])
      /\ calls' = [calls EXCEPT ![c] =
           [@ EXCEPT !.pc = "resolved",
                     !.written = @ \cup {call.command.output},
                     !.result = [videoPath |-> call.outputPath,
                                 duration |-> TotalDuration,
                                 relativePath |-> call.videoId \o Mp4]]]
      /\ UNCHANGED <<now, segVars, routeVars, pipe, laterVars>>

\* ffmpeg 'error': reject, caught and wrapped by the caller; the output file
\* may or may not have been created by then
FfmpegError(c) ==
  \E m \in EncoderMessages, partial \in BOOLEAN :
    LET call == calls[c]
    IN  /\ call.pc = "encoding"
        /\ disk' = IF partial
                   THEN WriteFile(disk, call.command.output,
                                  [by |-> c, kind |-> "mp4", index |-> 0])
                   ELSE disk
        /\ calls' = [calls EXCEPT ![c] =
             [@ EXCEPT !.pc = "rejected",
                       !.encoderErrors = Append(@, m),
                       !.failures = Append(@, [stage |-> "composition",
                                               message |-> CompositionError(m)]),
                       !.written = IF partial THEN @ \cup {call.command.output} ELSE @,
                       !.error = WrapFailure(call.kind, CompositionError(m))]]
        /\ UNCHANGED <<now, segVars, routeVars, pipe, laterVars>>

Next ==
  \/ Tick
  \/ \E c \in CallIds : generateVideo(c)
  \/ \E c \in CallIds : generateCompilationVideo(c)
  \/ \E c \in CallIds : SlideImageFinish(c)
  \/ \E c \in CallIds : SlideImageError(c)
  \/ \E c \in CallIds : FfmpegEnd(c)
  \/ \E c \in CallIds : FfmpegError(c)

\* no PUT or DELETE handled yet
NoCrud == [route |-> "none", id |-> 0, body |-> <<>>, status |-> 0, item |-> <<>>]

\* the requests to the fetch route: two, so that they can overlap
FetchIds == {"f1", "f2"}

\* a fetch request that has not arrived
IdleFetch ==
  [pc |-> "idle", source |-> 0, articles |-> <<>>, i |-> 1, exists |-> FALSE,
   fetched |-> 0, status |-> 0]

\* accessToken: string | null = null
Null == <<"null">>

\* the makeRequest calls: two, so that they can overlap
RequestIds == {"r1", "r2"}

\* a makeRequest call that has not been made
IdleRequest ==
  [pc |-> "idle", token |-> Null, expires_in |-> 0, requests |-> 0, oauth |-> 0,
   statuses |-> <<>>, error |-> "none"]

LaterInit ==
  /\ crud = NoCrud
  /\ fetches = [f \in FetchIds |-> IdleFetch]
  /\ accessToken = Null
  /\ tokenExpiry = 0
  /\ reddit = [r \in RequestIds |-> IdleRequest]

Init ==
  /\ ServiceInit
  /\ RoutesInit
  /\ PipeInit
  /\ LaterInit
  /\ segPc = "off"
  /\ segFn = "none"
  /\ segArgs = <<>>
  /\ segResult = <<>>

Spec == Init /\ [][Next]_vars

(***************************************************************************)
(* Inputs of the segmenters: the option records callers pass.              *)
(***************************************************************************)
\* n words of l letters c each, separated by single spaces
Words(n, l, c) == [p \in 1..(n * (l + 1) - 1) |-> IF p % (l + 1) = 0 THEN " " ELSE c]

\* sentence shapes: one too short to keep, one just long enough, longer ones
SentenceShapes ==
  { [n |-> 1,  l |-> SentenceMinLength,     c |-> "s"],
    [n |-> 1,  l |-> SentenceMinLength + 1, c |-> "k"],
    [n |-> 6,  l |-> 2,                     c |-> "m"],
    [n |-> 12, l |-> 4,                     c |-> "p"],
    [n |-> 30, l |-> 1,                     c |-> "q"] }

\* the terminator run that closes the i-th sentence
TerminatorRun(i) ==
  CASE i % 3 = 1 -> <<".">>
    [] i % 3 = 2 -> <<"?", "!">>
    [] OTHER     -> <<"!">>

RECURSIVE ContentFrom(_, _, _)
\* the sentences of `shapes` from the i-th on, each closed by its terminator
\* run (the last one only when endTerm) and separated by one space
ContentFrom(shapes, i, endTerm) ==
  IF i > Len(shapes) THEN <<>>
  ELSE (IF i > 1 THEN <<" ">> ELSE <<>>)
       \o Words(shapes[i].n, shapes[i].l, shapes[i].c)
       \o (IF i < Len(shapes) \/ endTerm THEN TerminatorRun(i) ELSE <<>>)
       \o ContentFrom(shapes, i + 1, endTerm)

SegContents ==
  {ContentFrom(sh, 1, e) :
     sh \in UNION {[1..k -> SentenceShapes] : k \in 0..MaxSentences}, e \in BOOLEAN}
  \cup {Words(n, 1, "w") \o <<".">> : n \in 1..MaxWords}
  \cup {OneTwoThreeFour, Undefined}

ContentSlideInputs ==
  [title : {<<"T">>}, content : SegContents, hook : {<<>>, <<"H">>},
   thumbnailText : {<<>>, <<"C">>}]

ArticlePool ==
  { [title |-> <<"A","1">>, content |-> <<"b","o","d","y"," ","1">>,
     source |-> <<"B","B","C">>, publishedAt |-> <<"2","0","2","5">>],
    [title |-> <<"A","2">>, content |-> <<"b","o","d","y"," ","2">>,
     source |-> <<"C","N","N">>, publishedAt |-> <<"2","0","2","4">>] }

CompilationInputs ==
  [articles : UNION {[1..k -> ArticlePool] : k \in 0..MaxArticles},
   compilationTitle : {<<"T","o","p">>}, hook : {<<"H">>}, thumbnailText : {<<"C">>}]

VideoSegmentInputs ==
  [title : {<<"T">>}, content : SegContents, hook : {<<"H">>}]

(***************************************************************************)
(* The segmenters, each applied to one input.                              *)
(***************************************************************************)
NoResult == [pending |-> TRUE]

SegInit ==
  /\ segPc = "call"
  /\ segResult = NoResult
  /\ \/ segFn = "createContentSlides" /\ segArgs \in ContentSlideInputs
     \/ segFn = "createCompilationSlides" /\ segArgs \in CompilationInputs
     \/ segFn = "createVideoSegments" /\ segArgs \in VideoSegmentInputs
  /\ ServiceInit
  /\ RoutesInit
  /\ PipeInit
  /\ LaterInit

CallCreateContentSlides ==
  /\ segPc = "call" /\ segFn = "createContentSlides"
  /\ segResult' = createContentSlides(segArgs)
  /\ segPc' = "return"
  /\ UNCHANGED <<segFn, segArgs, serviceVars, routeVars, pipe, laterVars>>

CallCreateCompilationSlides ==
  /\ segPc = "call" /\ segFn = "createCompilationSlides"
  /\ segResult' = createCompilationSlides(segArgs)
  /\ segPc' = "return"
  /\ UNCHANGED <<segFn, segArgs, serviceVars, routeVars, pipe, laterVars>>

CallCreateVideoSegments ==
  /\ segPc = "call" /\ segFn = "createVideoSegments"
  /\ segResult' = createVideoSegments(segArgs)
  /\ segPc' = "return"
  /\ UNCHANGED <<segFn, segArgs, serviceVars, routeVars, pipe, laterVars>>

SegNext ==
  \/ CallCreateContentSlides
  \/ CallCreateCompilationSlides
  \/ CallCreateVideoSegments

SpecSegmenters == SegInit /\ [][SegNext]_vars

(***************************************************************************)
(* storage.ts (MemStorage) and routes.ts: the content items, the two       *)
(* generate routes and the /videos route.  The routes call generateVideo   *)
(* of video-simple.ts; that call runs in the slot RouteCall.               *)
(***************************************************************************)
MaxItems == 2

RouteCall == "c1"

\* !x for a request field
NeverFalsy(x) == FALSE

Falsy(x) == x = <<>> \/ x = Undefined

\* { ...item, ...updates }
Merge(item, updates) ==
  [f \in (DOMAIN item) \cup (DOMAIN updates) |->
     IF f \in DOMAIN updates THEN updates[f] ELSE item[f]]

\* MemStorage.createContentItem: the id from the counter, status "pending"
\* unless given
createContentItem(store, id, insertItem) ==
  [k \in (DOMAIN store) \cup {id} |->
     IF k = id
     THEN Merge(Merge([status |-> "pending"], Merge(insertItem, [id |-> id])),
                [createdAt |-> now, updatedAt |-> now])
     ELSE store[k]]

\* MemStorage.getContentItem
getContentItem(store, id) == IF id \in DOMAIN store THEN store[id] ELSE Undefined

\* MemStorage.updateContentItem
updateContentItem(store, id, updates) ==
  IF id \notin DOMAIN store THEN store
  ELSE [store EXCEPT ![id] = Merge(Merge(@, updates), [updatedAt |-> now])]

\* the items clients create
NewItems ==
  { [title |-> <<"A","1">>, content |-> <<"b","o","d","y"," ","1">>,
     sourceName |-> <<"B","B","C">>],
    [title |-> <<"A","2">>, content |-> <<"b","o","d","y"," ","2">>,
     sourceName |-> <<"C","N","N">>] }

\* POST /api/content-items
CreateContentItem ==
  \E insertItem \in NewItems :
    /\ currentContentItemId <= MaxItems
    /\ contentItems' = createContentItem(contentItems, currentContentItemId, insertItem)
    /\ currentContentItemId' = currentContentItemId + 1
    /\ UNCHANGED <<serviceVars, segVars, post, get, pipe, laterVars>>

BreakingPrefix == <<"B","r","e","a","k","i","n","g",":"," ">>

TitleAndContentRequired ==
  <<"T","i","t","l","e"," ","a","n","d"," ","c","o","n","t","e","n","t"," ","a","r","e"," ",
    "r","e","q","u","i","r","e","d">>

ArticleIdsRequired ==
  <<"A","r","t","i","c","l","e"," ","I","D","s"," ","a","r","r","a","y"," ","i","s"," ",
    "r","e","q","u","i","r","e","d">>

CompilationFieldsRequired ==
  <<"C","o","m","p","i","l","a","t","i","o","n"," ","t","i","t","l","e",","," ","h","o","o",
    "k",","," ","a","n","d"," ","t","h","u","m","b","n","a","i","l"," ","t","e","x","t"," ",
    "a","r","e"," ","r","e","q","u","i","r","e","d">>

NoValidArticles ==
  <<"N","o"," ","v","a","l","i","d"," ","a","r","t","i","c","l","e","s"," ","f","o","u","n",
    "d">>

FailedToGenerateVideo ==
  <<"F","a","i","l","e","d"," ","t","o"," ","g","e","n","e","r","a","t","e"," ","v","i","d",
    "e","o",":"," ">>

FailedToGenerateCompilation ==
  <<"F","a","i","l","e","d"," ","t","o"," ","g","e","n","e","r","a","t","e"," ","c","o","m",
    "p","i","l","a","t","i","o","n"," ","v","i","d","e","o",":"," ">>

NotFound == <<"N","o","t"," ","f","o","u","n","d">>

\* res.status(status).json({ error })
ErrorResponse(status, error) ==
  [status |-> status, body |-> [success |-> FALSE, error |-> error, videoPath |-> <<>>,
                                duration |-> 0, articleCount |-> 0]]

\* res.json({ success: true, videoPath, duration, ... })
SuccessResponse(result, articleCount) ==
  [status |-> 200, body |-> [success |-> TRUE, error |-> <<>>,
                             videoPath |-> result.relativePath,
                             duration |-> result.duration, articleCount |-> articleCount]]

\* the catch block of a generate route
CatchResponseBare(prefix, message) == ErrorResponse(500, prefix)

CatchResponse(prefix, message) == ErrorResponse(500, prefix \o message)

\* the request bodies clients send to generate-video
VideoBodies ==
  [title : {<<>>, <<"T">>}, content : {<<>>, OneTwoThreeFour, FourLongSentences},
   hook : {Undefined, <<"H">>}, thumbnailText : {Undefined}]

\* ... and to generate-compilation; isArray: Array.isArray(articleIds)
CompilationBodies ==
  [isArray : {TRUE}, articleIds : {<<>>, <<1>>, <<2, 1>>, <<MaxItems + 1>>},
   compilationTitle : {<<>>, <<"T","o","p">>}, hook : {<<"H">>}, thumbnailText : {<<"C">>}]
  \cup [isArray : {FALSE}, articleIds : {<<>>},
        compilationTitle : {<<"T","o","p">>}, hook : {<<"H">>}, thumbnailText : {<<"C">>}]

\* POST /api/content-items/:id/generate-video, up to the await of generateVideo
PostGenerateVideo ==
  \E id \in 1..2, body \in VideoBodies :
    /\ post.pc = "none"
    /\ calls[RouteCall].pc = "idle"
    /\ IF Falsy(body.title) \/ Falsy(body.content)
       THEN /\ post' = [NoPost EXCEPT !.pc = "responded", !.route = "generate-video",
                                      !.id = id, !.body = body,
                                      !.response = ErrorResponse(400, TitleAndContentRequired)]
            /\ UNCHANGED calls
       ELSE /\ post' = [NoPost EXCEPT !.pc = "awaiting", !.route = "generate-video",
                                      !.id = id, !.body = body]
            /\ calls' = [calls EXCEPT ![RouteCall] =
                 LET options == [title |-> body.title, content |-> body.content,
                                 hook |-> OrElse(body.hook, BreakingPrefix \o body.title),
                                 thumbnailText |-> OrElse(body.thumbnailText, body.title)]
                 IN  StartedCall(@, "video", VideoPrefix, options,
                                 createContentSlides(options))]
    /\ UNCHANGED <<now, disk, segVars, contentItems, currentContentItemId, get, pipe, laterVars>>

\* the articles the compilation route finds for articleIds, in request order
FoundArticles(store, articleIds) ==
  LET Exists(id) == id \in DOMAIN store
      found == SelectSeq(articleIds, Exists)
  IN  [k \in 1..Len(found) |->
         [title |-> store[found[k]].title, content |-> store[found[k]].content,
          source |-> store[found[k]].sourceName]]

\* articles.map(...).join('\n---\n')
CombinedContent(articles) ==
  Join([k \in 1..Len(articles) |->
          NumberToString(k) \o <<".", " ">> \o articles[k].title \o <<"\n">>
            \o articles[k].content \o <<"\n", "S","o","u","r","c","e",":"," ">>
            \o articles[k].source \o <<"\n">>],
       <<"\n", "-", "-", "-", "\n">>)

\* POST /api/content-items/generate-compilation, up to the await of generateVideo
PostGenerateCompilation ==
  \E body \in CompilationBodies :
    LET articles == FoundArticles(contentItems, body.articleIds)
        refused(error) ==
          /\ post' = [NoPost EXCEPT !.pc = "responded", !.route = "generate-compilation",
                                    !.body = body, !.response = ErrorResponse(400, error)]
          /\ UNCHANGED calls
    IN  /\ post.pc = "none"
        /\ calls[RouteCall].pc = "idle"
        /\ IF ~body.isArray \/ Len(body.articleIds) = 0
           THEN refused(ArticleIdsRequired)
           ELSE IF Falsy(body.compilationTitle) \/ Falsy(body.hook) \/ Falsy(body.thumbnailText)
           THEN refused(CompilationFieldsRequired)
           ELSE IF articles = <<>>
           THEN refused(NoValidArticles)
           ELSE /\ post' = [NoPost EXCEPT !.pc = "awaiting",
                                          !.route = "generate-compilation", !.body = body]
                /\ calls' = [calls EXCEPT ![RouteCall] =
                     LET options == [title |-> body.compilationTitle,
                                     content |-> CombinedContent(articles),
                                     hook |-> body.hook,
                                     thumbnailText |-> body.thumbnailText]
                     IN  StartedCall(@, "video", VideoPrefix, options,
                                     createContentSlides(options))]
        /\ UNCHANGED <<now, disk, segVars, contentItems, currentContentItemId, get, pipe, laterVars>>

\* the await of generateVideo returns: generate-video updates the content
\* item, both routes send the success response
GenerateResolved ==
  LET call == calls[RouteCall]
  IN  /\ post.pc = "awaiting"
      /\ call.pc = "resolved"
      /\ IF post.route = "generate-video"
         THEN /\ contentItems' =
                   updateContentItem(contentItems, post.id, [status |-> "video_generated"])
              /\ post' = [post EXCEPT !.pc = "responded",
                                      !.response = SuccessResponse(call.result, 0)]
         ELSE /\ contentItems' = contentItems
              /\ post' = [post EXCEPT !.pc = "responded",
                            !.response =
                              SuccessResponse(call.result,
                                Len(FoundArticles(contentItems, post.body.articleIds)))]
      /\ UNCHANGED <<serviceVars, segVars, currentContentItemId, get, pipe, laterVars>>

\* the await of generateVideo throws: the catch block answers 500
GenerateRejected ==
  LET call == calls[RouteCall]
  IN  /\ post.pc = "awaiting"
      /\ call.pc = "rejected"
      /\ post' = [post EXCEPT !.pc = "responded",
                    !.response =
                      CatchResponse(IF post.route = "generate-video"
                                    THEN FailedToGenerateVideo
                                    ELSE FailedToGenerateCompilation,
                                    call.error)]
      /\ UNCHANGED <<serviceVars, segVars, contentItems, currentContentItemId, get, pipe, laterVars>>

EndsWithAnything(s, suffix) == TRUE

\* String.prototype.endsWith
EndsWith(s, suffix) ==
  /\ Len(s) >= Len(suffix)
  /\ SubSeq(s, Len(s) - Len(suffix) + 1, Len(s)) = suffix

\* express.static('./generated-videos'): the file a request path names
StaticFile(path) == JoinOutputDir(Tail(path))

\* the name of a file of ./generated-videos as a request path under /videos
RequestPathOf(file) == SubSeq(file, Len(OutputDirName) + 1, Len(file))

\* the paths clients ask for: every file of the directory, and others
RequestPaths ==
  {RequestPathOf(file) : file \in DOMAIN disk}
    \cup { <<"/">>,
           <<"/">> \o VideoId(VideoPrefix, 0) \o Mp4,
           <<"/">> \o VideoId(VideoPrefix, 0) \o <<".","M","P","4">>,
           <<"/">> \o VideoId(VideoPrefix, 0) \o Mp4 \o <<"/">>,
           <<"/">> \o VideoId(VideoPrefix, 0) \o <<"_","s","l","i","d","e","_","0",".","p","n","g">> }

\* GET /videos/<path>: the extension check, then express.static
GetVideos ==
  \E path \in RequestPaths :
    /\ get' = IF ~EndsWith(path, Mp4)
              THEN [NoGet EXCEPT !.path = path, !.status = 404, !.error = NotFound]
              ELSE IF StaticFile(path) \in DOMAIN disk
              THEN [NoGet EXCEPT !.path = path, !.status = 200, !.reachedStatic = TRUE,
                                 !.file = StaticFile(path)]
              ELSE [NoGet EXCEPT !.path = path, !.status = 404, !.reachedStatic = TRUE]
    /\ UNCHANGED <<serviceVars, segVars, contentItems, currentContentItemId, post, pipe, laterVars>>

RoutesNext ==
  \/ CreateContentItem
  \/ PostGenerateVideo
  \/ PostGenerateCompilation
  \/ SlideImageFinish(RouteCall)
  \/ SlideImageError(RouteCall)
  \/ FfmpegEnd(RouteCall)
  \/ FfmpegError(RouteCall)
  \/ GenerateResolved
  \/ GenerateRejected
  \/ GetVideos

SpecRoutes == Init /\ [][RoutesNext]_vars

(***************************************************************************)
(* video.ts and video-text.ts: the other two variants of generateVideo.    *)
(* One call is followed in `pipe`, from one await to the next.             *)
(***************************************************************************)
TempDirName == <<"t","e","m","p","-","a","s","s","e","t","s">>

\* join(this.tempDir, `${videoId}_audio.wav`)
AudioPath(videoId) ==
  TempDirName \o <<"/">> \o videoId \o <<"_","a","u","d","i","o",".","w","a","v">>

\* join(this.tempDir, `${videoId}_visual_${i}.png`)
VisualPath(videoId, i) ==
  TempDirName \o <<"/">> \o videoId \o <<"_","v","i","s","u","a","l","_">>
    \o NumberToString(i) \o <<".","p","n","g">>

TypeErrorReplace ==
  <<"C","a","n","n","o","t"," ","r","e","a","d"," ","p","r","o","p","e","r","t","i","e","s",
    " ","o","f"," ","u","n","d","e","f","i","n","e","d"," ","(","r","e","a","d","i","n","g",
    " ","'","r","e","p","l","a","c","e","'",")">>

AFinal == Label("afinal", 0)

\* the chains the loop of composeVideo appends for segment i (0-based)
SegmentChains(segments, i, previousOutput) ==
  <<[ins |-> <<InputPad(i)>>, ops |-> ScaleOps, out |-> Label("v", i)]>>
  \o (IF i = 0
      THEN <<[ins |-> <<Label("v", i)>>, ops |-> <<Hold(segments[i + 1].duration)>>,
              out |-> Label("vout", i)]>>
      ELSE <<[ins |-> <<Label("v", i)>>, ops |-> <<Hold(segments[i + 1].duration)>>,
              out |-> Label("vtemp", i)],
             [ins |-> <<previousOutput, Label("vtemp", i)>>, ops |-> <<ConcatOp>>,
              out |-> Label("vout", i)]>>)

RECURSIVE ComposeChains(_, _, _)
\* the loop of composeVideo from segment i on, then the fps and audio chains
ComposeChains(segments, i, previousOutput) ==
  IF i >= Len(segments)
  THEN <<[ins |-> <<previousOutput>>, ops |-> <<[f |-> "fps", fps |-> 30]>>, out |-> VFinal],
         [ins |-> <<Label("audio", Len(segments))>>,
          ops |-> <<[f |-> "aresample", rate |-> 44100]>>, out |-> AFinal]>>
  ELSE SegmentChains(segments, i, previousOutput)
       \o ComposeChains(segments, i + 1, Label("vout", i))

\* the ffmpeg command composeVideo builds and runs
ComposeCommand(audioPath, visualPaths, outputPath, segments) ==
  [inputs |-> visualPaths \o <<audioPath>>,
   filterComplex |-> ComposeChains(segments, 0, NoLabel),
   map |-> VFinal,
   mapAudio |-> AFinal,
   output |-> outputPath]

\* a stage of the call has failed with `message`
StageFailed(p, stage, message) ==
  [p EXCEPT !.failures = Append(@, [stage |-> stage, message |-> message])]

\* the catch block of generateVideo
Rejected(p, stage, message) ==
  [StageFailed(p, stage, message) EXCEPT !.pc = "rejected",
                                         !.error = VideoGenerationFailed \o message]

\* generateAudio has returned audioPath: createVideoSegments, then the
\* first createSegmentVisual of generateVisuals
AfterAudio(p, audio) ==
  LET segmented == createVideoSegments(p.options)
      tried     == [p EXCEPT !.audio = audio, !.attempts = Append(@, "segmentation")]
  IN  IF segmented.threw
      THEN Rejected(tried, "segmentation", segmented.message)
      ELSE [tried EXCEPT !.pc = "visuals", !.segments = segmented.segments,
                         !.attempts = Append(@, "rendering")]

\* the catch block of generateAudio: the silent-audio command is started
FallBackToSilence(p, message) ==
  [StageFailed(p, "audio", message) EXCEPT !.pc = "silentAudio",
                                           !.attempts = Append(@, "silentAudio")]

SilentAudioFailedUnnoticed(p, message) ==
  AfterAudio(StageFailed(p, "silentAudio", message), "none")

\* the silent-audio command fails: generateAudio throws
SilentAudioFailed(p, message) == Rejected(p, "silentAudio", message)

\* the option records callers pass to generateVideo of video.ts
VideoTsInputs ==
  [title : {<<"T">>}, content : {<<>>, <<"S","h","o","r","t">>, FourLongSentences, Undefined},
   hook : {<<"H">>}, audioScript : {<<"H","i">>, Undefined}]

\* the messages of a failed exec
ExecMessages ==
  { <<"C","o","m","m","a","n","d"," ","f","a","i","l","e","d",":"," ","e","s","p","e","a","k">> }

\* generateVideo of video.ts, up to the first await: the espeak command is
\* started, or script.replace throws and the silent-audio command is started
VideoTsGenerateVideo ==
  \E options \in VideoTsInputs :
    LET started == [IdlePipe EXCEPT !.variant = "video", !.options = options,
                                    !.videoId = VideoId(VideoPrefix, now),
                                    !.attempts = <<"audio">>]
    IN  /\ pipe.variant = "none"
        /\ pipe' = IF options.audioScript = Undefined
                   THEN FallBackToSilence(started, TypeErrorReplace)
                   ELSE [started EXCEPT !.pc = "audio"]
        /\ UNCHANGED <<serviceVars, segVars, routeVars, laterVars>>

\* the espeak command succeeds
VideoTsAudioDone ==
  /\ pipe.variant = "video" /\ pipe.pc = "audio"
  /\ pipe' = AfterAudio(pipe, "speech")
  /\ UNCHANGED <<serviceVars, segVars, routeVars, laterVars>>

\* the espeak command fails
VideoTsAudioFailed ==
  \E m \in ExecMessages :
    /\ pipe.variant = "video" /\ pipe.pc = "audio"
    /\ pipe' = FallBackToSilence(pipe, m)
    /\ UNCHANGED <<serviceVars, segVars, routeVars, laterVars>>

\* the silent-audio command succeeds
VideoTsSilentDone ==
  /\ pipe.variant = "video" /\ pipe.pc = "silentAudio"
  /\ pipe' = AfterAudio(pipe, "silent")
  /\ UNCHANGED <<serviceVars, segVars, routeVars, laterVars>>

VideoTsSilentFailed ==
  \E m \in ExecMessages :
    /\ pipe.variant = "video" /\ pipe.pc = "silentAudio"
    /\ pipe' = SilentAudioFailed(pipe, m)
    /\ UNCHANGED <<serviceVars, segVars, routeVars, laterVars>>

\* createSegmentVisual(segments[i], imagePath, i) finishes; after the last
\* one composeVideo builds the command and runs ffmpeg
VideoTsVisualFinish ==
  LET i     == Len(pipe.visualPaths)
      paths == Append(pipe.visualPaths, VisualPath(pipe.videoId, i))
      drawn == [pipe EXCEPT !.visualPaths = paths]
  IN  /\ pipe.variant = "video" /\ pipe.pc = "visuals"
      /\ i < Len(pipe.segments)
      /\ pipe' = IF i + 1 < Len(pipe.segments) THEN drawn
                 ELSE [drawn EXCEPT
                         !.pc = "encoding",
                         !.attempts = Append(@, "composition"),
                         !.command = ComposeCommand(AudioPath(pipe.videoId), paths,
                                                    JoinOutputDir(pipe.videoId \o Mp4),
                                                    pipe.segments)]
      /\ UNCHANGED <<serviceVars, segVars, routeVars, laterVars>>

\* the write stream of createSegmentVisual emits 'error'
VideoTsVisualError ==
  \E m \in WriteMessages :
    /\ pipe.variant = "video" /\ pipe.pc = "visuals"
    /\ pipe' = Rejected(pipe, "rendering", m)
    /\ UNCHANGED <<serviceVars, segVars, routeVars, laterVars>>

\* ffmpeg 'end': resolve({ duration: sum of the segments' durations })
VideoTsFfmpegEnd ==
  /\ pipe.variant = "video" /\ pipe.pc = "encoding"
  /\ disk' = WriteFile(disk, pipe.command.output, [by |-> "pipe", kind |-> "mp4", index |-> 0])
  /\ pipe' = [pipe EXCEPT !.pc = "resolved",
                          !.result = [videoPath |-> pipe.command.output,
                                      duration |-> SumDurations(pipe.segments),
                                      relativePath |-> <<>>]]
  /\ UNCHANGED <<now, calls, segVars, routeVars, laterVars>>

\* ffmpeg 'error': reject(new Error(`Video composition failed: ...`))
VideoTsFfmpegError ==
  \E m \in EncoderMessages, partial \in BOOLEAN :
    /\ pipe.variant = "video" /\ pipe.pc = "encoding"
    /\ disk' = IF partial
               THEN WriteFile(disk, pipe.command.output,
                              [by |-> "pipe", kind |-> "mp4", index |-> 0])
               ELSE disk
    /\ pipe' = Rejected(pipe, "composition", CompositionError(m))
    /\ UNCHANGED <<now, calls, segVars, routeVars, laterVars>>

(***************************************************************************)
(* video-text.ts: createTextVideo and escapeText.                          *)
(***************************************************************************)
\* .substring(0, 200) of escapeText, and content.substring(0, 800)
EscapeLimit == 200

ContentLimit == 800

\* escapeText(text): ' : [ ] , ; each get a backslash in front, \n and \r
\* become a space, then .substring(0, 200).  before(i) is the length of
\* what the replacements make of text[1..i].
escapeText(text) ==
  LET Special(i) == text[i] \in {"'", ":", "[", "]", ",", ";"}
      before(i)  == i + Cardinality({k \in 1..i : Special(k)})
      n          == Min2(before(Len(text)), EscapeLimit)
  IN  [p \in 1..n |->
         LET i == CHOOSE j \in 1..p : before(j) >= p /\ before(j - 1) < p
         IN  IF Special(i) THEN (IF before(i) = p THEN text[i] ELSE "\\")
             ELSE IF text[i] \in {"\n", "\r"} THEN " "
             ELSE text[i]]

\* Math.min(120, Math.max(30, (wordCount / 180) * 60))
TextDuration(content) ==
  Min2(Seconds(120), Max2(Seconds(30), (WordCount(content) * 60 * TicksPerSecond) \div 180))

\* the ffmpeg command createTextVideo builds and runs
TextCommand(options, duration, outputPath) ==
  [inputs |-> <<[color |-> "red", duration |-> duration]>>,
   filterComplex |->
     <<[f |-> "drawtext", text |-> escapeText(OrElse(options.thumbnailText, options.title))],
       [f |-> "drawtext", text |-> BreakingNews],
       [f |-> "drawtext", text |-> escapeText(options.hook)],
       [f |-> "drawtext",
        text |-> escapeText(SubSeq(options.content, 1,
                                   Min2(Len(options.content), ContentLimit)))],
       [f |-> "drawtext", text |-> LikeAndSubscribe]>>,
   map |-> NoLabel,
   output |-> outputPath]

\* the option records callers pass to generateVideo of video-text.ts
TextInputs ==
  [title : {<<"T">>},
   content : {<<>>, FourLongSentences, Undefined, Words(200, 1, "w"), Words(600, 1, "w")},
   hook : {<<"H",":"," ","i","t","'","s">>, Undefined},
   thumbnailText : {<<>>, <<"C">>}]

\* generateVideo of video-text.ts, up to the await of createTextVideo:
\* content.split or escapeText throws, or ffmpeg is started
TextGenerateVideo ==
  \E options \in TextInputs :
    LET videoId == VideoId(VideoPrefix, now)
        started == [IdlePipe EXCEPT !.variant = "text", !.options = options,
                                    !.videoId = videoId,
                                    !.attempts = <<"composition">>]
    IN  /\ pipe.variant = "none"
        /\ pipe' = IF options.content = Undefined
                   THEN Rejected(started, "composition", TypeErrorSplit)
                   ELSE IF options.hook = Undefined
                   THEN Rejected(started, "composition", TypeErrorReplace)
                   ELSE [started EXCEPT
                           !.pc = "encoding",
                           !.command = TextCommand(options, TextDuration(options.content),
                                                   JoinOutputDir(videoId \o Mp4))]
        /\ UNCHANGED <<serviceVars, segVars, routeVars, laterVars>>

\* ffmpeg 'end': resolve(duration)
TextFfmpegEnd ==
  /\ pipe.variant = "text" /\ pipe.pc = "encoding"
  /\ disk' = WriteFile(disk, pipe.command.output, [by |-> "pipe", kind |-> "mp4", index |-> 0])
  /\ pipe' = [pipe EXCEPT !.pc = "resolved",
                          !.result = [videoPath |-> pipe.command.output,
                                      duration |-> pipe.command.inputs[1].duration,
                                      relativePath |-> pipe.videoId \o Mp4]]
  /\ UNCHANGED <<now, calls, segVars, routeVars, laterVars>>

\* ffmpeg 'error': reject(new Error(`Video composition failed: ...`))
TextFfmpegError ==
  \E m \in EncoderMessages, partial \in BOOLEAN :
    /\ pipe.variant = "text" /\ pipe.pc = "encoding"
    /\ disk' = IF partial
               THEN WriteFile(disk, pipe.command.output,
                              [by |-> "pipe", kind |-> "mp4", index |-> 0])
               ELSE disk
    /\ pipe' = Rejected(pipe, "composition", CompositionError(m))
    /\ UNCHANGED <<now, calls, segVars, routeVars, laterVars>>

(***************************************************************************)
(* One call of one variant at a time: the three services are separate      *)
(* modules and a call of one never touches the state of another.           *)
(***************************************************************************)
PipelineCall == "c1"

NoCallYet == pipe.variant = "none" /\ calls[PipelineCall].pc = "idle"

PipelinesNext ==
  \/ Tick
  \/ NoCallYet /\ generateVideo(PipelineCall)
  \/ NoCallYet /\ generateCompilationVideo(PipelineCall)
  \/ SlideImageFinish(PipelineCall)
  \/ SlideImageError(PipelineCall)
  \/ FfmpegEnd(PipelineCall)
  \/ FfmpegError(PipelineCall)
  \/ NoCallYet /\ VideoTsGenerateVideo
  \/ VideoTsAudioDone
  \/ VideoTsAudioFailed
  \/ VideoTsSilentDone
  \/ VideoTsSilentFailed
  \/ VideoTsVisualFinish
  \/ VideoTsVisualError
  \/ VideoTsFfmpegEnd
  \/ VideoTsFfmpegError
  \/ NoCallYet /\ TextGenerateVideo
  \/ TextFfmpegEnd
  \/ TextFfmpegError

SpecPipelines == Init /\ [][PipelinesNext]_vars

(***************************************************************************)
(* Helpers of the properties.                                              *)
(***************************************************************************)
Types(slides) == [k \in 1..Len(slides) |-> slides[k].type]

BodyTexts(slides) ==
  LET IsBody(sl) == sl.type = "content"
      bodies == SelectSeq(slides, IsBody)
  IN  [k \in 1..Len(bodies) |-> bodies[k].text]

IsLetter(ch) == ~IsWhitespace(ch) /\ ~IsTerminator(ch)

Letters(s) == SelectSeq(s, IsLetter)

IsSubstring(m, s) ==
  \E i \in 0..(Len(s) - Len(m)) : SubSeq(s, i + 1, i + Len(m)) = m

HasNoTerminator(s) == \A i \in 1..Len(s) : ~IsTerminator(s[i])

InFlight(c) == calls[c].pc \in {"rendering", "encoding"}

Segmented(c) == calls[c].pc \in {"rendering", "encoding", "resolved"}

\* createSlideshowVideo has built and run its command
Composed(c) ==
  calls[c].pc \in {"encoding", "resolved"} \/ calls[c].encoderErrors # <<>>

ReturnedContentSlides == segPc = "return" /\ segFn = "createContentSlides"

ReturnedCompilationSlides == segPc = "return" /\ segFn = "createCompilationSlides"

ReturnedVideoSegments == segPc = "return" /\ segFn = "createVideoSegments"

(***************************************************************************)
(* C1                                                                      *)
(***************************************************************************)
\* C1: the duration a call of the slideshow service returns equals the sum
\* of the durations of the slides its segmenter produced.
C1_DurationIsSegmentSum ==
  \A c \in CallIds :
    calls[c].pc = "resolved" =>
      calls[c].result.duration = SumDurations(calls[c].slides)

(***************************************************************************)
(* C2                                                                      *)
(***************************************************************************)
\* C2 (as stated): Scenario B, "One. Two. Three. Four.", segments into
\* title, hook, body, body, call-to-action.
C2_ScenarioBFiveSegments ==
  \A c \in CallIds :
    (calls[c].kind = "video" /\ calls[c].options = ScenarioB /\ Segmented(c)) =>
      Types(calls[c].slides) = <<"title", "hook", "content", "content", "cta">>

\* C2 (amended): Scenario B segments into exactly title, hook, call-to-action,
\* because each of its four sentences is at most 10 characters long and is
\* discarded; four sentences that are each longer than 10 characters segment
\* into title, hook, body, body, call-to-action, batched by 2 in order.
C2_ScenarioBThreeSegments ==
  \A c \in CallIds :
    (calls[c].kind = "video" /\ Segmented(c)) =>
      /\ calls[c].options = ScenarioB =>
           /\ Types(calls[c].slides) = <<"title", "hook", "cta">>
           /\ calls[c].slides[1].text = <<"C">>
           /\ calls[c].slides[2].text = <<"H">>
      /\ calls[c].options.content = FourLongSentences =>
           /\ Types(calls[c].slides) = <<"title", "hook", "content", "content", "cta">>
           /\ Letters(calls[c].slides[3].text)
                = Letters(SubSeq(FourLongSentences, 1, 26))
           /\ Letters(calls[c].slides[4].text)
                = Letters(SubSeq(FourLongSentences, 27, Len(FourLongSentences)))

C2_Witness ==
  \E c \in CallIds :
    /\ calls[c].kind = "video" /\ calls[c].options = ScenarioB
    /\ calls[c].pc = "rendering"
    /\ Len(calls[c].slides) = 3

(***************************************************************************)
(* C3                                                                      *)
(***************************************************************************)
\* C3: for content "", undefined, or without sentence-terminating
\* punctuation, createContentSlides does not throw and yields at least 3
\* slides.
C3_SegmenterNeverFails ==
  (/\ ReturnedContentSlides
   /\ \/ segArgs.content = <<>>
      \/ segArgs.content = Undefined
      \/ HasNoTerminator(segArgs.content))
  => (~segResult.threw /\ Len(segResult.slides) >= 3)

(***************************************************************************)
(* C4                                                                      *)
(***************************************************************************)
\* C4: two calls in flight at the same time never write the same path.
C4_DisjointWrites ==
  \A c1, c2 \in CallIds :
    (c1 # c2 /\ InFlight(c1) /\ InFlight(c2)) =>
      calls[c1].written \cap calls[c2].written = {}

(***************************************************************************)
(* C5                                                                      *)
(***************************************************************************)
\* C5: the i-th slide of the segmenter is rendered with index i to the i-th
\* slide path, that path is the i-th input of the ffmpeg command, and the
\* stream mapped to the output plays inputs 0..N-1 in that order; the body
\* slides carry the kept sentences in the order of the content.
C5_OrderPreserved ==
  \A c \in CallIds :
    LET call == calls[c]
        n    == Len(call.slides)
    IN  /\ Len(call.rendered) = Len(call.slidePaths)
        /\ Len(call.rendered) <= n
        /\ \A k \in 1..Len(call.rendered) :
             /\ call.rendered[k].index = k - 1
             /\ call.rendered[k].slide = call.slides[k]
             /\ call.rendered[k].path = call.slidePaths[k]
             /\ \A j \in 1..Len(call.rendered) :
                  j # k => call.rendered[j].path # call.rendered[k].path
        /\ Composed(c) =>
             /\ Len(call.rendered) = n
             /\ call.command.inputs = [k \in 1..n |-> call.rendered[k].path]
             /\ StreamOf(call.command.map, call.command.filterComplex)
                  = [k \in 1..n |-> k - 1]
        /\ (call.kind = "video" /\ Segmented(c)) =>
             Letters(Join(BodyTexts(call.slides), <<>>))
               = Letters(Join(Sentences(call.options.content), <<>>))

C5_Witness ==
  \E c \in CallIds :
    /\ calls[c].pc = "resolved"
    /\ calls[c].options.content = FourLongSentences
    /\ Len(calls[c].command.inputs) = 5

(***************************************************************************)
(* C6                                                                      *)
(***************************************************************************)
\* C6: in createVideoSegments every body segment lasts
\* max(8, min(20, wordCount / 2.5)) seconds: 8 for 1 word, 20 for 1000
\* words, within [8, 20] always, and non-decreasing in the word count.
C6_BodyDurationClamp ==
  (ReturnedVideoSegments /\ ~segResult.threw) =>
    LET segs == segResult.segments
    IN  \A k \in 2..Len(segs) :
          LET wc == WordCount(segs[k].text)
              d  == segs[k].duration
          IN  /\ 5 * d = (IF 2 * wc < 5 * 8 THEN 5 * 8
                          ELSE IF 2 * wc > 5 * 20 THEN 5 * 20
                          ELSE 2 * wc) * TicksPerSecond
              /\ wc = 1 => d = 8 * TicksPerSecond
              /\ wc = 1000 => d = 20 * TicksPerSecond
              /\ 8 * TicksPerSecond <= d /\ d <= 20 * TicksPerSecond
              /\ \A j \in 2..Len(segs) :
                   WordCount(segs[j].text) <= wc => segs[j].duration <= d

C6_Witness ==
  /\ ReturnedVideoSegments
  /\ ~segResult.threw
  /\ Len(segResult.segments) = 2
  /\ WordCount(segResult.segments[2].text) = 1000
  /\ segResult.segments[2].duration = 20 * TicksPerSecond

(***************************************************************************)
(* C7                                                                      *)
(***************************************************************************)
\* C7: every slide of createContentSlides has a duration within a fixed
\* band; the documented band ends at 20 seconds and the shortest slide
\* lasts 3 seconds.
C7_DurationBand ==
  (ReturnedContentSlides /\ ~segResult.threw) =>
    \A k \in 1..Len(segResult.slides) :
      /\ segResult.slides[k].duration >= 3 * TicksPerSecond
      /\ segResult.slides[k].duration <= 20 * TicksPerSecond

(***************************************************************************)
(* C8                                                                      *)
(***************************************************************************)
PerArticleTypes(n) ==
  [k \in 1..(4 * n) |-> <<"number", "subtitle", "content", "source">>[((k - 1) % 4) + 1]]

C9_ScenarioASucceeds ==
  \A c \in CallIds :
    (calls[c].kind = "video" /\ calls[c].options = ScenarioA) =>
      LET call == calls[c]
      IN  /\ Types(call.slides) = <<"title", "hook", "cta">>
          /\ call.pc = "rejected" =>
               \/ call.encoderErrors # <<>>
               \/ \E m \in WriteMessages : IsSubstring(m, call.error)
          /\ call.pc = "resolved" =>
               /\ call.result.duration >= (3 + 5 + 3) * TicksPerSecond
               /\ call.result.duration >= SumDurations(call.slides)
               /\ call.result.videoPath = call.command.output

C9_Witness ==
  \E c \in CallIds :
    /\ calls[c].kind = "video" /\ calls[c].options = ScenarioA
    /\ calls[c].pc = "resolved"

(***************************************************************************)
(* C10                                                                     *)
(***************************************************************************)
\* C10: when ffmpeg reports an error with message m, the call rejects,
\* returns no result, and the message of the error it throws contains m.
C10_EncoderErrorSurfaces ==
  \A c \in CallIds :
    \A k \in 1..Len(calls[c].encoderErrors) :
      /\ calls[c].pc = "rejected"
      /\ calls[c].result = NoReturn
      /\ IsSubstring(calls[c].encoderErrors[k], calls[c].error)

C10_Witness ==
  \E c1, c2 \in CallIds :
    /\ calls[c1].kind = "video" /\ calls[c1].encoderErrors # <<>>
    /\ calls[c2].kind = "compilation" /\ calls[c2].encoderErrors # <<>>

(***************************************************************************)
(* Helpers of the filter-graph properties.                                 *)
(***************************************************************************)
HasOp(chain, f) == \E k \in 1..Len(chain.ops) : chain.ops[k].f = f

HasFade(chain, t) ==
  \E k \in 1..Len(chain.ops) : chain.ops[k].f = "fade" /\ chain.ops[k].t = t

\* the chains of the graph that read exactly the label `label`
ChainsReading(chains, label) ==
  LET Reads(chain) == chain.ins = <<label>>
  IN  SelectSeq(chains, Reads)

ConcatChains(chains) ==
  LET IsConcat(chain) == HasOp(chain, "concat")
  IN  SelectSeq(chains, IsConcat)

\* the files a successful call is said to leave: its slides and its video
ExpectedFiles(call) ==
  {SlideImagePath(call.videoId, i) : i \in 0..(Len(call.slides) - 1)}
    \cup {JoinOutputDir(call.videoId \o Mp4)}

C15_HoldIsSegmentDuration ==
  \A c \in CallIds :
    LET call   == calls[c]
        chains == call.command.filterComplex
    IN  Composed(c) =>
          \A i \in 0..(Len(call.slides) - 1) :
            LET holds == ChainsReading(chains, Label("v", i))
            IN  /\ Len(holds) = 1
                /\ holds[1].ops = <<Hold(call.slides[i + 1].duration)>>

(***************************************************************************)
(* C16                                                                     *)
(***************************************************************************)
\* how many times `stage` occurs in the attempts of a call
Attempts(p, stage) == Cardinality({k \in 1..Len(p.attempts) : p.attempts[k] = stage})

FailedStages(p) == {p.failures[k].stage : k \in 1..Len(p.failures)}

Stages == {"audio", "silentAudio", "segmentation", "rendering", "composition"}

\* every stage once at most, and the call rejected by its one failure
SingleAttempt(p) ==
  /\ \A stage \in Stages : Attempts(p, stage) <= 1
  /\ Attempts(p, "audio") + Attempts(p, "silentAudio") <= 1
  /\ p.failures # <<>> =>
       /\ p.pc = "rejected"
       /\ Len(p.failures) = 1
       /\ p.result = NoReturn
       /\ IsSubstring(p.failures[1].message, p.error)
  /\ p.pc = "resolved" => p.failures = <<>>

\* C16 (as claimed): in every variant each stage is attempted at most once,
\* audio generation included, and a call that has seen a stage fail is
\* rejected: nothing is retried and nothing falls back to a substitute.
C16_SingleAttemptNoFallback ==
  /\ SingleAttempt(calls[PipelineCall])
  /\ SingleAttempt(pipe)

\* C16: in video-simple.ts and video-text.ts each stage is attempted at most
\* once and a failure rejects the call.  In video.ts segmentation, rendering
\* and composition are attempted at most once and their failure rejects the
\* call; a failure of the espeak audio stage starts the silent-audio
\* fallback, once, and the call goes on with the silent track; it is
\* rejected only when the fallback fails too.
C16_SingleAttemptExceptAudio ==
  /\ SingleAttempt(calls[PipelineCall])
  /\ pipe.variant = "text" => SingleAttempt(pipe)
  /\ pipe.variant = "video" =>
       /\ \A stage \in Stages : Attempts(pipe, stage) <= 1
       /\ Attempts(pipe, "silentAudio") = 1 <=> "audio" \in FailedStages(pipe)
       /\ pipe.audio = "silent" => "audio" \in FailedStages(pipe)
       /\ \A k \in 1..Len(pipe.failures) :
            pipe.failures[k].stage # "audio" =>
              /\ pipe.pc = "rejected"
              /\ k = Len(pipe.failures)
              /\ pipe.result = NoReturn
              /\ IsSubstring(pipe.failures[k].message, pipe.error)
       /\ Len(pipe.failures) <= 2
       /\ pipe.pc = "resolved" => FailedStages(pipe) \subseteq {"audio"}
       /\ pipe.pc = "rejected" => FailedStages(pipe) \ {"audio"} # {}

C16_Witness ==
  /\ pipe.variant = "video"
  /\ pipe.pc = "resolved"
  /\ pipe.audio = "silent"
  /\ "audio" \in FailedStages(pipe)
  /\ Len(pipe.segments) = 3

(***************************************************************************)
(* C17                                                                     *)
(***************************************************************************)
\* C17: in the graph of a composed call with N slides, the chain of every
\* slide has a fade-in, and it has a fade-out exactly when the slide is
\* neither the first (index 0) nor the last (index N-1).
C17_FadeOutOnInnerSlidesOnly ==
  \A c \in CallIds :
    LET call   == calls[c]
        chains == call.command.filterComplex
        n      == Len(call.command.inputs)
    IN  Composed(c) =>
          \A i \in 0..(n - 1) :
            LET slideChains == ChainsReading(chains, InputPad(i))
            IN  /\ Len(slideChains) = 1
                /\ HasFade(slideChains[1], "in")
                /\ HasFade(slideChains[1], "out") <=> (i # 0 /\ i # n - 1)

(***************************************************************************)
(* C18                                                                     *)
(***************************************************************************)
\* the graph `chains` over n inputs is a left fold whose result is `map`
LeftFold(chains, n, map) ==
  LET concats == ConcatChains(chains)
      IsFinal(chain) == chain.out = map
      finals  == SelectSeq(chains, IsFinal)
  IN  /\ n >= 1
      /\ Len(concats) = n - 1
      /\ \A k \in 1..(n - 1) :
           /\ concats[k].ops = <<[f |-> "concat", n |-> 2, v |-> 1, a |-> 0]>>
           /\ Len(concats[k].ins) = 2
           /\ StreamOf(concats[k].ins[1], chains) = [j \in 1..k |-> j - 1]
           /\ StreamOf(concats[k].ins[2], chains) = <<k>>
           /\ \E h \in 1..Len(chains) :
                /\ chains[h].out = concats[k].ins[2]
                /\ HasOp(chains[h], "tpad")
      /\ Len(finals) = 1
      /\ HasOp(finals[1], "fps")
      /\ Len(finals[1].ins) = 1
      /\ StreamOf(finals[1].ins[1], chains) = [j \in 1..n |-> j - 1]

\* composeVideo of video.ts has built and run its command
ComposedVideoTs == pipe.variant = "video" /\ pipe.command # NoCommand

\* C18: the graph a composer builds for N >= 1 slides (createSlideshowVideo
\* of video-simple.ts, composeVideo of video.ts) has exactly N-1 concat
\* steps, each with two inputs; the k-th step takes the stream of slides
\* 0..k-1 first and the held slide k second; the stream given to fps=30 and
\* mapped to the output plays slides 0..N-1 in order, each once.
C18_LeftFoldConcat ==
  /\ \A c \in CallIds :
       Composed(c) =>
         LeftFold(calls[c].command.filterComplex, Len(calls[c].command.inputs),
                  calls[c].command.map)
  /\ ComposedVideoTs =>
       /\ Len(pipe.command.inputs) = Len(pipe.segments) + 1
       /\ LeftFold(pipe.command.filterComplex, Len(pipe.segments), pipe.command.map)

C18_Witness ==
  /\ ComposedVideoTs
  /\ pipe.pc = "resolved"
  /\ Len(pipe.segments) = 3
  /\ Len(ConcatChains(pipe.command.filterComplex)) = 2

(***************************************************************************)
(* C19                                                                     *)
(***************************************************************************)
\* the list createContentSlides is said to return: one title first, one
\* hook second, one call-to-action last, bodies in between
TitleHookBodiesCta(options, slides) ==
  LET n == Len(slides)
  IN  /\ n >= 3
      /\ slides[1].type = "title"
      /\ slides[1].text = (IF options.thumbnailText # <<>> /\ options.thumbnailText # Undefined
                           THEN options.thumbnailText ELSE options.title)
      /\ slides[1].duration = 3 * TicksPerSecond
      /\ slides[2].type = "hook"
      /\ slides[2].text = options.hook
      /\ slides[2].duration = 5 * TicksPerSecond
      /\ slides[n].type = "cta"
      /\ slides[n].duration = 3 * TicksPerSecond
      /\ \A k \in 3..(n - 1) : slides[k].type = "content"

\* C19: for any input, createContentSlides returns a list whose first slide
\* is the single title (text = thumbnailText when non-empty, otherwise
\* title; 3 s), whose second is the single hook (text = hook; 5 s), whose
\* last is the single call-to-action (3 s), with only body slides between.
C19_TitleHookBodiesCta ==
  ReturnedContentSlides =>
    /\ ~segResult.threw
    /\ TitleHookBodiesCta(segArgs, segResult.slides)

(***************************************************************************)
(* C20                                                                     *)
(***************************************************************************)
\* the positions where a fragment of s starts: a non-terminator that is
\* first in s or follows a terminator
FragmentStarts(s) ==
  {a \in 1..Len(s) : ~IsTerminator(s[a]) /\ (a = 1 \/ IsTerminator(s[a - 1]))}

\* the fragment that starts at a: up to the next terminator or the end
FragmentAt(s, a) ==
  LET terms == {j \in a..Len(s) : IsTerminator(s[j])}
      stop  == IF terms = {} THEN Len(s) + 1
               ELSE CHOOSE j \in terms : \A x \in terms : j <= x
  IN  SubSeq(s, a, stop - 1)

\* the first and the last position of t that hold no blank (0 when none)
FirstInk(t) ==
  IF \A p \in 1..Len(t) : t[p] \in {" ", "\t", "\n", "\r"} THEN 0
  ELSE CHOOSE p \in 1..Len(t) :
         /\ t[p] \notin {" ", "\t", "\n", "\r"}
         /\ \A q \in 1..(p - 1) : t[q] \in {" ", "\t", "\n", "\r"}

LastInk(t) ==
  IF \A p \in 1..Len(t) : t[p] \in {" ", "\t", "\n", "\r"} THEN 0
  ELSE CHOOSE p \in 1..Len(t) :
         /\ t[p] \notin {" ", "\t", "\n", "\r"}
         /\ \A q \in (p + 1)..Len(t) : t[q] \in {" ", "\t", "\n", "\r"}

\* a text without its leading and trailing blanks
Stripped(t) == IF FirstInk(t) = 0 THEN <<>> ELSE SubSeq(t, FirstInk(t), LastInk(t))

\* the starts of the fragments that survive: trimmed length above 10
SurvivorStarts(s) ==
  {a \in FragmentStarts(s) : Len(Stripped(FragmentAt(s, a))) > 10}

\* the j-th smallest element of a set of numbers
NthOf(S, j) == CHOOSE a \in S : Cardinality({x \in S : x < a}) = j - 1

\* the body texts the claim describes for content s
ExpectedBodies(s) ==
  LET surv == SurvivorStarts(s)
      k    == Cardinality(surv)
  IN  [j \in 1..((k + 1) \div 2) |->
         Stripped(FragmentAt(s, NthOf(surv, 2 * j - 1))
                  \o (IF 2 * j <= k
                      THEN <<".", " ">> \o FragmentAt(s, NthOf(surv, 2 * j))
                      ELSE <<>>))]

\* C20: the body texts of createContentSlides and of createVideoSegments are
\* the fragments of the content between runs of . ! ? whose trimmed length is
\* above 10, taken two by two in content order: with k such fragments there
\* are ceil(k/2) bodies and the j-th is the (2j-1)-th and 2j-th surviving
\* fragments joined by ". "; no other fragment is part of any body.
C20_BatchesOfTwo ==
  /\ (ReturnedContentSlides /\ ~segResult.threw) =>
       BodyTexts(segResult.slides) = ExpectedBodies(segArgs.content)
  /\ (ReturnedVideoSegments /\ ~segResult.threw) =>
       [j \in 1..(Len(segResult.segments) - 1) |-> segResult.segments[j + 1].text]
         = ExpectedBodies(segArgs.content)

C20_Witness ==
  /\ ReturnedContentSlides
  /\ ~segResult.threw
  /\ Cardinality(FragmentStarts(segArgs.content)) = 4
  /\ Cardinality(SurvivorStarts(segArgs.content)) = 3
  /\ Len(BodyTexts(segResult.slides)) = 2

(***************************************************************************)
(* C11                                                                     *)
(***************************************************************************)
\* the last characters of a name are those of `ending`
NameEndsIn(name, ending) ==
  /\ Len(name) >= Len(ending)
  /\ \A k \in 1..Len(ending) : name[Len(name) - Len(ending) + k] = ending[k]

\* C11: a request under /videos whose path does not end in ".mp4" is
\* answered 404 without reaching the static handler, and every file the
\* route serves has a name ending in ".mp4" and is a video: no slide image
\* of ./generated-videos and no other file is served.
C11_OnlyMp4Served ==
  /\ (get.status # 0 /\ ~NameEndsIn(get.path, <<".","m","p","4">>)) =>
       /\ get.status = 404
       /\ ~get.reachedStatic
       /\ get.file = <<>>
  /\ get.file # <<>> =>
       /\ get.status = 200
       /\ get.file \in DOMAIN disk
       /\ NameEndsIn(get.file, <<".","m","p","4">>)
       /\ disk[get.file].kind = "mp4"

C11_Witness ==
  /\ get.status = 404
  /\ ~get.reachedStatic
  /\ NameEndsIn(get.path, <<".","p","n","g">>)
  /\ StaticFile(get.path) \in DOMAIN disk
  /\ disk[StaticFile(get.path)].kind = "png"

(***************************************************************************)
(* C12                                                                     *)
(***************************************************************************)
\* C12: when the generateVideo call of a generate-video or
\* generate-compilation request has failed, no success response is sent for
\* the request, and the response that is sent has a 4xx/5xx status and an
\* error text that contains the message of the failure (the message the
\* failing stage gave and the message generateVideo threw).
C12_FailureAnswered ==
  LET call == calls[RouteCall]
  IN  /\ post.response.body.success => (call.pc = "resolved" /\ call.failures = <<>>)
      /\ (post.pc \in {"awaiting", "responded"} /\ call.pc = "rejected") =>
           /\ ~post.response.body.success
           /\ post.response.body.videoPath = <<>>
           /\ post.pc = "responded" =>
                /\ post.response.status \in 400..599
                /\ IsSubstring(call.error, post.response.body.error)
                /\ call.failures # <<>>
                /\ \A k \in 1..Len(call.failures) :
                     IsSubstring(call.failures[k].message, post.response.body.error)

C12_Witness ==
  /\ post.pc = "responded"
  /\ post.route = "generate-compilation"
  /\ calls[RouteCall].pc = "rejected"
  /\ calls[RouteCall].encoderErrors # <<>>
  /\ post.response.status = 500

(***************************************************************************)
(* C21                                                                     *)
(***************************************************************************)
\* C21: every segment a segmenter has returned (createContentSlides,
\* createCompilationSlides, createVideoSegments) has a duration strictly
\* greater than 0.
C21_DurationsPositive ==
  /\ (ReturnedContentSlides \/ ReturnedCompilationSlides) =>
       \A k \in 1..Len(segResult.slides) : segResult.slides[k].duration > 0
  /\ ReturnedVideoSegments =>
       \A k \in 1..Len(segResult.segments) : segResult.segments[k].duration > 0

C21_Witness ==
  /\ ReturnedCompilationSlides
  /\ Len(segResult.slides) = 3 + 4 * MaxArticles
  /\ \E k \in 1..Len(segResult.slides) : segResult.slides[k].duration = 2 * TicksPerSecond

(***************************************************************************)
(* C27                                                                     *)
(***************************************************************************)
\* C27: a step of the generate routes changes the content items only when
\* it is the generate-video request resuming after generateVideo has
\* resolved: then it sends the success response and sets the status of the
\* item named by the request to "video_generated" (and its updatedAt),
\* nothing else; a request with a missing title or content is answered 400,
\* and neither it nor a request whose generateVideo failed changes an item.
C27_StatusOnlyAfterSuccess ==
  [][ post' # post =>
        /\ IF post.route = "generate-video" /\ post.pc = "awaiting"
                /\ calls[RouteCall].pc = "resolved"
           THEN /\ post'.response.body.success
                /\ contentItems' =
                     [k \in DOMAIN contentItems |->
                        IF k = post.id
                        THEN [contentItems[k] EXCEPT !.status = "video_generated",
                                                     !.updatedAt = now]
                        ELSE contentItems[k]]
           ELSE contentItems' = contentItems
        /\ ( /\ post'.route = "generate-video"
             /\ post'.pc = "responded"
             /\ \/ post'.body.title \in {<<>>, Undefined}
                \/ post'.body.content \in {<<>>, Undefined} ) =>
             /\ post'.response.status = 400
             /\ contentItems' = contentItems
        /\ (post'.pc = "responded" /\ calls[RouteCall].pc = "rejected") =>
             /\ ~post'.response.body.success
             /\ contentItems' = contentItems
    ]_vars

C27_Witness ==
  /\ post.route = "generate-video"
  /\ post.pc = "responded"
  /\ post.response.body.success
  /\ post.id \in DOMAIN contentItems
  /\ contentItems[post.id].status = "video_generated"
  /\ \E k \in DOMAIN contentItems : contentItems[k].status = "pending"

(***************************************************************************)
(* PUT and DELETE /api/content-items/:id (routes.ts, storage.ts).          *)
(***************************************************************************)
\* MemStorage.deleteContentItem: Map.delete
deleteContentItem(store, id) == [k \in (DOMAIN store) \ {id} |-> store[k]]

ContentItemNotFound ==
  <<"C","o","n","t","e","n","t"," ","i","t","e","m"," ","n","o","t"," ","f","o","u","n","d">>

\* the request bodies of PUT: any JSON object, handed to the storage as it is
PutBodies ==
  { [title |-> <<"N","e","w">>],
    [status |-> "approved"],
    [id |-> 2],
    [id |-> 7, title |-> <<"N","e","w">>] }

\* PUT /api/content-items/:id
PutContentItem ==
  \E id \in 1..MaxItems, updates \in PutBodies :
    LET item == getContentItem(updateContentItem(contentItems, id, updates), id)
    IN  /\ contentItems' = updateContentItem(contentItems, id, updates)
        /\ crud' = [route |-> "PUT", id |-> id, body |-> updates,
                    status |-> IF item = Undefined THEN 404 ELSE 200,
                    item |-> IF item = Undefined THEN <<>> ELSE item]
        /\ UNCHANGED <<serviceVars, segVars, currentContentItemId, post, get, pipe,
                       fetches, accessToken, tokenExpiry, reddit>>

\* DELETE /api/content-items/:id
DeleteContentItem ==
  \E id \in 1..MaxItems :
    /\ contentItems' = deleteContentItem(contentItems, id)
    /\ crud' = [route |-> "DELETE", id |-> id, body |-> <<>>,
                status |-> IF id \in DOMAIN contentItems THEN 200 ELSE 404,
                item |-> <<>>]
    /\ UNCHANGED <<serviceVars, segVars, currentContentItemId, post, get, pipe,
                   fetches, accessToken, tokenExpiry, reddit>>

StorageNext ==
  \/ CreateContentItem
  \/ PutContentItem
  \/ DeleteContentItem

SpecStorage == Init /\ [][StorageNext]_vars

(***************************************************************************)
(* C26                                                                     *)
(***************************************************************************)
\* C26: every stored content item's id field equals the key it is stored
\* under in MemStorage.contentItems.
C26_IdIsKey == \A k \in DOMAIN contentItems : contentItems[k].id = k

(***************************************************************************)
(* POST /api/news-sources/:id/fetch (routes.ts).  Every await of the       *)
(* handler is a point where another request's handler can run.             *)
(***************************************************************************)
DEMO_USER_ID == 1

\* the news sources in the storage: id -> news source
newsSources == <<[id |-> 1, category |-> "technology", country |-> "us"]>>

\* storage.getNewsSource, for an id that is stored
getNewsSource(id) == newsSources[id]

\* NewsService.getTopHeadlines maps an article of the API to this record;
\* the id is the article's URL
HeadlineOf(url) ==
  [id |-> url, title |-> <<"T">> \o url, content |-> <<"D">> \o url, url |-> url,
   source |-> <<"B","B","C">>]

UrlA == <<"h","t","t","p",":","/","/","a">>

UrlB == <<"h","t","t","p",":","/","/","b">>

\* what the news API answers with: nothing, one article, two articles in
\* either order, the same article twice
HeadlineLists ==
  { <<>>,
    <<HeadlineOf(UrlA)>>,
    <<HeadlineOf(UrlA), HeadlineOf(UrlB)>>,
    <<HeadlineOf(UrlB), HeadlineOf(UrlA)>>,
    <<HeadlineOf(UrlA), HeadlineOf(UrlA)>> }

\* MemStorage.getContentItems(userId): the items of the user
getContentItems(store, userId) ==
  { store[k] : k \in { j \in DOMAIN store : store[j].userId = userId } }

\* existingItems.find(item => item.sourceId === article.id), on the items
\* read at this moment
ExistsIn(store, article) ==
  \E item \in getContentItems(store, DEMO_USER_ID) : item.sourceId = article.id

\* the item the handler stores for an article
FetchedItem(source, article) ==
  [userId |-> DEMO_USER_ID, newsSourceId |-> source.id, sourceId |-> article.id,
   title |-> article.title, content |-> article.content, url |-> article.url,
   sourceName |-> article.source, status |-> "pending"]

\* the handler of request f goes on to article i: it reads the stored items
\* and waits, or, past the last article, answers
NextArticle(f, i, fetched, store) ==
  IF i > Len(fetches[f].articles)
  THEN [fetches[f] EXCEPT !.pc = "responded", !.i = i, !.fetched = fetched,
                          !.status = 200]
  ELSE [fetches[f] EXCEPT !.pc = "read", !.i = i, !.fetched = fetched,
                          !.exists = ExistsIn(store, fetches[f].articles[i])]

\* the request arrives: 404 without a news source, else getTopHeadlines is
\* awaited
FetchNews(f) ==
  \E id \in 1..2 :
    /\ fetches[f].pc = "idle"
    /\ fetches' =
         [fetches EXCEPT ![f] =
            IF id \notin DOMAIN newsSources
            THEN [@ EXCEPT !.pc = "responded", !.status = 404]
            ELSE [@ EXCEPT !.pc = "headlines", !.source = id]]
    /\ UNCHANGED <<serviceVars, segVars, routeVars, pipe, crud, accessToken,
                   tokenExpiry, reddit>>

\* getTopHeadlines resolves: 400 without articles, else the loop begins
HeadlinesResolved(f) ==
  \E articles \in HeadlineLists :
    /\ fetches[f].pc = "headlines"
    /\ fetches' =
         [fetches EXCEPT ![f] =
            IF Len(articles) = 0
            THEN [@ EXCEPT !.pc = "responded", !.status = 400]
            ELSE [@ EXCEPT !.pc = "read", !.articles = articles, !.i = 1,
                           !.exists = ExistsIn(contentItems, articles[1])]]
    /\ UNCHANGED <<serviceVars, segVars, routeVars, pipe, crud, accessToken,
                   tokenExpiry, reddit>>

\* getTopHeadlines rejects: the outer catch answers 500
HeadlinesRejected(f) ==
  /\ fetches[f].pc = "headlines"
  /\ fetches' = [fetches EXCEPT ![f] = [@ EXCEPT !.pc = "responded", !.status = 500]]
  /\ UNCHANGED <<serviceVars, segVars, routeVars, pipe, crud, accessToken,
                 tokenExpiry, reddit>>

\* the handler resumes with the items it read: an article not among them is
\* stored and the handler waits again; one among them is skipped
FetchArticle(f) ==
  /\ fetches[f].pc = "read"
  /\ IF fetches[f].exists
     THEN /\ fetches' =
               [fetches EXCEPT ![f] =
                  NextArticle(f, fetches[f].i + 1, fetches[f].fetched, contentItems)]
          /\ UNCHANGED <<contentItems, currentContentItemId>>
     ELSE /\ contentItems' =
               createContentItem(contentItems, currentContentItemId,
                                 FetchedItem(getNewsSource(fetches[f].source),
                                             fetches[f].articles[fetches[f].i]))
          /\ currentContentItemId' = currentContentItemId + 1
          /\ fetches' = [fetches EXCEPT ![f] = [@ EXCEPT !.pc = "created"]]
  /\ UNCHANGED <<serviceVars, segVars, post, get, pipe, crud, accessToken,
                 tokenExpiry, reddit>>

\* createContentItem has resolved: fetched++ and on to the next article
ArticleStored(f) ==
  /\ fetches[f].pc = "created"
  /\ fetches' =
       [fetches EXCEPT ![f] =
          NextArticle(f, fetches[f].i + 1, fetches[f].fetched + 1, contentItems)]
  /\ UNCHANGED <<serviceVars, segVars, routeVars, pipe, crud, accessToken,
                 tokenExpiry, reddit>>

FetchNext ==
  \E f \in FetchIds :
    \/ FetchNews(f)
    \/ HeadlinesResolved(f)
    \/ HeadlinesRejected(f)
    \/ FetchArticle(f)
    \/ ArticleStored(f)

SpecFetch == Init /\ [][FetchNext]_vars

(***************************************************************************)
(* C25                                                                     *)
(***************************************************************************)
\* C25: no two content items of the demo user have the same sourceId.
C25_NoDuplicateSourceId ==
  \A j, k \in DOMAIN contentItems :
    ( /\ j # k
      /\ contentItems[j].userId = DEMO_USER_ID
      /\ contentItems[k].userId = DEMO_USER_ID )
    => contentItems[j].sourceId # contentItems[k].sourceId

(***************************************************************************)
(* C28                                                                     *)
(***************************************************************************)
\* the chains before chain k that produce `label`, and all that do
ProducersOf(chains, label) == {j \in 1..Len(chains) : chains[j].out = label}

\* the places (chain, position) where `label` is consumed
ConsumersOf(chains, label) ==
  {jm \in (1..Len(chains)) \X (1..2) :
     jm[2] <= Len(chains[jm[1]].ins) /\ chains[jm[1]].ins[jm[2]] = label}

\* `label`, consumed by chain k, was produced exactly once, by an earlier chain
ProducedOnceBefore(chains, k, label) ==
  /\ Cardinality(ProducersOf(chains, label)) = 1
  /\ \E j \in ProducersOf(chains, label) : j < k

IsVideoPad(label, n) == label.name = "in" /\ 0 <= label.i /\ label.i < n

\* every produced label other than the final outputs is consumed exactly
\* once; vfinal is produced once, consumed by no chain, and is what is mapped
ProducedWell(command) ==
  LET chains == command.filterComplex
  IN  /\ \A k \in 1..Len(chains) :
           chains[k].out \notin {VFinal, AFinal} =>
             Cardinality(ConsumersOf(chains, chains[k].out)) = 1
      /\ Cardinality(ProducersOf(chains, VFinal)) = 1
      /\ ConsumersOf(chains, VFinal) = {}
      /\ command.map = VFinal

\* every consumed label is a video input pad or was produced once before
ConsumedWell(command, n) ==
  LET chains == command.filterComplex
  IN  \A k \in 1..Len(chains) : \A m \in 1..Len(chains[k].ins) :
        \/ IsVideoPad(chains[k].ins[m], n)
        \/ ProducedOnceBefore(chains, k, chains[k].ins[m])

\* the same, the audio input pad [N:a] allowed as well
ConsumedWellWithAudio(command, n) ==
  LET chains == command.filterComplex
  IN  \A k \in 1..Len(chains) : \A m \in 1..Len(chains[k].ins) :
        \/ IsVideoPad(chains[k].ins[m], n)
        \/ chains[k].ins[m] = Label("audio", n)
        \/ ProducedOnceBefore(chains, k, chains[k].ins[m])

\* C28 as stated: in the graph of either composer every consumed label was
\* produced exactly once by an earlier filter or is a video input pad
\* [i:v] with 0 <= i < N; every produced label other than the final outputs
\* is consumed exactly once; vfinal is the single video output; N >= 1.
C28_GraphWellFormed ==
  /\ \A c \in CallIds :
       Composed(c) =>
         /\ Len(calls[c].command.inputs) >= 1
         /\ ConsumedWell(calls[c].command, Len(calls[c].command.inputs))
         /\ ProducedWell(calls[c].command)
  /\ ComposedVideoTs =>
       /\ Len(pipe.segments) >= 1
       /\ ConsumedWell(pipe.command, Len(pipe.segments))
       /\ ProducedWell(pipe.command)

\* C28, amended: the same, except that the graph of video.ts also consumes
\* the audio input pad [N:a], once, in the chain that produces afinal, the
\* second final output, which is mapped as well.
C28_GraphWellFormedWithAudio ==
  /\ \A c \in CallIds :
       Composed(c) =>
         /\ Len(calls[c].command.inputs) >= 1
         /\ ConsumedWell(calls[c].command, Len(calls[c].command.inputs))
         /\ ProducedWell(calls[c].command)
         /\ ProducersOf(calls[c].command.filterComplex, AFinal) = {}
  /\ ComposedVideoTs =>
       /\ Len(pipe.segments) >= 1
       /\ Len(pipe.command.inputs) = Len(pipe.segments) + 1
       /\ ConsumedWellWithAudio(pipe.command, Len(pipe.segments))
       /\ Cardinality(ConsumersOf(pipe.command.filterComplex,
                                  Label("audio", Len(pipe.segments)))) = 1
       /\ ProducedWell(pipe.command)
       /\ Cardinality(ProducersOf(pipe.command.filterComplex, AFinal)) = 1
       /\ ConsumersOf(pipe.command.filterComplex, AFinal) = {}
       /\ pipe.command.mapAudio = AFinal

C28_Witness ==
  /\ ComposedVideoTs
  /\ Len(pipe.segments) >= 2
  /\ Cardinality(ConsumersOf(pipe.command.filterComplex,
                             Label("vout", Len(pipe.segments) - 1))) = 1
  /\ pipe.command.filterComplex[Len(pipe.command.filterComplex)].out = AFinal

(***************************************************************************)
(* escapeText of video-text.ts applied to texts of its callers: titles,    *)
(* hooks and contents, short ones and ones that reach the 200 limit.       *)
(***************************************************************************)
RestInit ==
  /\ ServiceInit
  /\ RoutesInit
  /\ PipeInit
  /\ LaterInit

\* n letters
Letters200(n) == [p \in 1..n |-> "a"]

\* how a text goes on after its letters
EscapeTails ==
  { <<>>, <<"o","k">>, <<"'">>, <<"i","t","'","s">>, <<":">>, <<"[","x","]">>,
    <<",",";">>, <<"\n">>, <<"\r","\n","b">>, <<"\\">>, <<"\\","'">>,
    <<"\\","\\",":">>, <<"a","\\">> }

\* the lengths of the letters: none, and around the limit
EscapeLengths == {0} \cup ((EscapeLimit - 4)..EscapeLimit)

EscapeInputs ==
  {Letters200(n) \o tail : n \in EscapeLengths, tail \in EscapeTails} \cup {Undefined}

EscapeInit ==
  /\ segPc = "call"
  /\ segFn = "escapeText"
  /\ segArgs \in EscapeInputs
  /\ segResult = NoResult
  /\ RestInit

\* this.escapeText(text); text.replace throws on undefined
CallEscapeText ==
  /\ segPc = "call" /\ segFn = "escapeText"
  /\ segResult' = IF segArgs = Undefined
                  THEN [threw |-> TRUE, message |-> TypeErrorReplace, text |-> <<>>]
                  ELSE [threw |-> FALSE, message |-> <<>>, text |-> escapeText(segArgs)]
  /\ segPc' = "return"
  /\ UNCHANGED <<segFn, segArgs, serviceVars, routeVars, pipe, laterVars>>

SpecEscape == EscapeInit /\ [][CallEscapeText]_vars

(***************************************************************************)
(* C22                                                                     *)
(***************************************************************************)
ReturnedEscapeText == segPc = "return" /\ segFn = "escapeText" /\ ~segResult.threw

\* the number of backslashes right before position i of s
BackslashRun(s, i) ==
  CHOOSE k \in 0..(i - 1) :
    /\ \A j \in (i - k)..(i - 1) : s[j] = "\\"
    /\ k = i - 1 \/ s[i - k - 1] # "\\"

\* position i is taken literally by the filter parser: the backslash before
\* it is not itself the second half of an escaped backslash
EscapedAt(s, i) == BackslashRun(s, i) % 2 = 1

DrawtextSpecials == {"'", ":", "[", "]", ",", ";"}

\* C22: the result of escapeText has every ' : [ ] , ; escaped, no CR or
\* LF, at most 200 characters and no dangling backslash at its end.
C22_SafelyEscaped ==
  ReturnedEscapeText =>
    LET s == segResult.text
    IN  /\ \A i \in 1..Len(s) : s[i] \in DrawtextSpecials => EscapedAt(s, i)
        /\ \A i \in 1..Len(s) : s[i] \notin {"\n", "\r"}
        /\ Len(s) <= EscapeLimit
        /\ Len(s) > 0 => ~(s[Len(s)] = "\\" /\ ~EscapedAt(s, Len(s)))

(***************************************************************************)
(* The text layout of createSlideImage (video-simple.ts) and of            *)
(* createSegmentVisual (video.ts): font size, then word wrap.  The canvas  *)
(* is an input: ctx.measureText is one of a family of width measures.      *)
(***************************************************************************)
maxWidth == 1600

MinFontSize == 40

\* let fontSize = slide.type === 'title' ? 120 : 80
StartFontSize(type) == IF type = "title" THEN 120 ELSE 80

ShrunkNot(fontSize) == fontSize

\* fontSize -= 5
Shrunk(fontSize) == fontSize - 5

\* the width measures: `wide` tenths of the font size per character, on
\* top of `pad` pixels; the last one finds every text too wide
Measures ==
  { [wide |-> 6, pad |-> 0], [wide |-> 5, pad |-> 0], [wide |-> 0, pad |-> 2000] }

\* ctx.measureText(text).width > maxWidth at the font size
TooWide(text, fontSize, measure) ==
  Len(text) * fontSize * measure.wide + 10 * measure.pad > 10 * maxWidth

\* text.split(' '): the pieces between the spaces, empty ones included
SplitSpaces(s) ==
  LET cuts   == {0, Len(s) + 1} \cup {i \in 1..Len(s) : s[i] = " "}
      cut(k) == CHOOSE p \in cuts : Cardinality({q \in cuts : q < p}) = k - 1
  IN  [k \in 1..(Cardinality(cuts) - 1) |-> SubSeq(s, cut(k) + 1, cut(k + 1) - 1)]

PushLineLost(lines, currentLine) == lines

\* lines.push(currentLine)
PushLine(lines, currentLine) == Append(lines, currentLine)

RECURSIVE WrapFrom(_, _, _, _, _, _)
\* for (const word of words) { ... } from word i on, then
\* if (currentLine) lines.push(currentLine)
WrapFrom(words, i, lines, currentLine, fontSize, measure) ==
  IF i > Len(words)
  THEN IF currentLine # <<>> THEN PushLine(lines, currentLine) ELSE lines
  ELSE LET word     == words[i]
           testLine == currentLine \o (IF currentLine # <<>> THEN <<" ">> ELSE <<>>) \o word
       IN  IF TooWide(testLine, fontSize, measure) /\ currentLine # <<>>
           THEN WrapFrom(words, i + 1, PushLine(lines, currentLine), word, fontSize, measure)
           ELSE WrapFrom(words, i + 1, lines, testLine, fontSize, measure)

\* the word wrap of both renderers
WrapText(text, fontSize, measure) ==
  WrapFrom(SplitSpaces(text), 1, <<>>, <<>>, fontSize, measure)

\* Math.max(40, Math.min(80, 1000 / segment.text.length)), to the pixel;
\* 1000 / 0 is Infinity
SegmentFontSize(text) ==
  IF Len(text) = 0 THEN 80 ELSE Max2(40, Min2(80, 1000 \div Len(text)))

LongWord == [p \in 1..80 |-> "x"]

\* the texts of slides: short, long, with one word wider than the budget,
\* with empty pieces around doubled, leading and trailing spaces, empty
SlideTexts ==
  { <<>>, <<" ">>, <<"a">>, <<" ","a">>, <<"a"," ">>, <<"a"," "," ","b">>,
    Words(8, 5, "w"), Words(20, 5, "w"), LongWord,
    Words(3, 5, "w") \o <<" ">> \o LongWord \o <<" "," ","e","n","d">> }

SlideImageInputs == [type : {"title", "content"}, text : SlideTexts, measure : Measures]

SegmentVisualInputs == [type : {"content"}, text : SlideTexts, measure : Measures]

SlideInit ==
  /\ segPc = "call"
  /\ segResult = NoResult
  /\ \/ segFn = "createSlideImage" /\ segArgs \in SlideImageInputs
     \/ segFn = "createSegmentVisual" /\ segArgs \in SegmentVisualInputs
  /\ RestInit

\* createSlideImage up to the first test of the while loop
CallCreateSlideImage ==
  /\ segPc = "call" /\ segFn = "createSlideImage"
  /\ segResult' = [fontSize |-> StartFontSize(segArgs.type), lines |-> <<>>]
  /\ segPc' = "loop"
  /\ UNCHANGED <<segFn, segArgs, serviceVars, routeVars, pipe, laterVars>>

\* one turn of while (measureText(text).width > maxWidth && fontSize > 40)
ShrinkFont ==
  /\ segPc = "loop"
  /\ TooWide(segArgs.text, segResult.fontSize, segArgs.measure)
  /\ segResult.fontSize > MinFontSize
  /\ segResult' = [segResult EXCEPT !.fontSize = Shrunk(@)]
  /\ UNCHANGED <<segPc, segFn, segArgs, serviceVars, routeVars, pipe, laterVars>>

\* the test of the while loop fails: the loop is left
FontSettled ==
  /\ segPc = "loop"
  /\ ~( /\ TooWide(segArgs.text, segResult.fontSize, segArgs.measure)
        /\ segResult.fontSize > MinFontSize )
  /\ segPc' = "wrap"
  /\ UNCHANGED <<segFn, segArgs, segResult, serviceVars, routeVars, pipe, laterVars>>

\* the text is wrapped at the font size reached
WrapSlideText ==
  /\ segPc = "wrap"
  /\ segResult' = [segResult EXCEPT
                     !.lines = WrapText(segArgs.text, segResult.fontSize, segArgs.measure)]
  /\ segPc' = "return"
  /\ UNCHANGED <<segFn, segArgs, serviceVars, routeVars, pipe, laterVars>>

\* the text layout of createSegmentVisual
CallCreateSegmentVisual ==
  /\ segPc = "call" /\ segFn = "createSegmentVisual"
  /\ segResult' = [fontSize |-> SegmentFontSize(segArgs.text),
                   lines |-> WrapText(segArgs.text, SegmentFontSize(segArgs.text),
                                      segArgs.measure)]
  /\ segPc' = "return"
  /\ UNCHANGED <<segFn, segArgs, serviceVars, routeVars, pipe, laterVars>>

SlideNext ==
  \/ CallCreateSlideImage
  \/ ShrinkFont
  \/ FontSettled
  \/ WrapSlideText
  \/ CallCreateSegmentVisual

SpecSlideImage == SlideInit /\ [][SlideNext]_vars

\* createSlideImage runs on once called: no step up to the end of its
\* while loop waits for anything
SpecSlideImageFair ==
  /\ SpecSlideImage
  /\ WF_vars(CallCreateSlideImage)
  /\ WF_vars(ShrinkFont)
  /\ WF_vars(FontSettled)

(***************************************************************************)
(* C23                                                                     *)
(***************************************************************************)
InFontLoop == segFn = "createSlideImage" /\ segPc \in {"loop", "wrap", "return"}

PastFontLoop == segFn = "createSlideImage" /\ segPc \in {"wrap", "return"}

\* C23: the font-shrink loop of createSlideImage terminates; the font size
\* starts at 120 (title) or 80, goes down in steps of 5 and stays within
\* 40..start; it ends above 40 only if the text fits the 1600 pixels at
\* the size it ends with.
C23_FontLoopTerminates ==
  /\ [](InFontLoop =>
          /\ MinFontSize <= segResult.fontSize
          /\ segResult.fontSize <= StartFontSize(segArgs.type)
          /\ (StartFontSize(segArgs.type) - segResult.fontSize) % 5 = 0)
  /\ []((PastFontLoop /\ segResult.fontSize > MinFontSize) =>
          ~TooWide(segArgs.text, segResult.fontSize, segArgs.measure))
  /\ (segFn = "createSlideImage") => <>PastFontLoop

C23_Witness ==
  /\ segFn = "createSlideImage" /\ segPc = "return"
  /\ segArgs.type = "title"
  /\ segResult.fontSize = MinFontSize
  /\ TooWide(segArgs.text, MinFontSize, segArgs.measure)

(***************************************************************************)
(* C24                                                                     *)
(***************************************************************************)
ReturnedLines ==
  segPc = "return" /\ segFn \in {"createSlideImage", "createSegmentVisual"}

\* the non-empty words of a text, in order
NonEmptyWords(s) ==
  LET NonEmpty(word) == word # <<>>
  IN  SelectSeq(SplitSpaces(s), NonEmpty)

RECURSIVE WordsOfLines(_)
\* the non-empty words of the lines, line after line
WordsOfLines(lines) ==
  IF lines = <<>> THEN <<>>
  ELSE NonEmptyWords(Head(lines)) \o WordsOfLines(Tail(lines))

\* C24: the word wrap returns (it never fails); the non-empty words of the
\* lines it produces, in order, are the non-empty words of the text, in
\* order; no line is empty; a line wider than 1600 pixels is a single word.
C24_WrapKeepsWords ==
  ReturnedLines =>
    /\ WordsOfLines(segResult.lines) = NonEmptyWords(segArgs.text)
    /\ \A k \in 1..Len(segResult.lines) :
         /\ segResult.lines[k] # <<>>
         /\ TooWide(segResult.lines[k], segResult.fontSize, segArgs.measure) =>
              Len(SplitSpaces(segResult.lines[k])) = 1

C24_Witness ==
  /\ ReturnedLines
  /\ Len(NonEmptyWords(segArgs.text)) > Len(segResult.lines)
  /\ Len(segResult.lines) >= 3
  /\ Len(SplitSpaces(segArgs.text)) > Len(NonEmptyWords(segArgs.text))
  /\ \E k \in 1..Len(segResult.lines) :
       TooWide(segResult.lines[k], segResult.fontSize, segArgs.measure)

(***************************************************************************)
(* RedditService (reddit.ts): the OAuth token cache and makeRequest.       *)
(* Date.now() and the expiry are counted in minutes (60000 ms).            *)
(***************************************************************************)
MaxRedditNow == 3

RefreshEarly == 1

\* Date.now() + NaN
NaN == 0 - 1

\* the clock goes on while requests are in flight
RedditTick ==
  /\ now < MaxRedditNow
  /\ now' = now + 1
  /\ UNCHANGED <<calls, disk, segVars, routeVars, pipe, crud, fetches, accessToken,
                 tokenExpiry, reddit>>

TokenA == <<"t","A">>

TokenB == <<"t","B">>

\* what the OAuth endpoint answers with when it answers OK: a token good
\* for one to three minutes, or a body without a token
OAuthData ==
  [access_token : {TokenA, TokenB}, expires_in : 1..3]
    \cup {[access_token |-> Undefined, expires_in |-> NaN]}

\* the statuses of the API's answers
ApiStatuses == {200, 401, 403, 500}

CacheValidAlways(token, expiry, time) ==
  token # Null /\ token # Undefined /\ token # <<>>

\* this.accessToken && Date.now() < this.tokenExpiry
CacheValid(token, expiry, time) ==
  token # Null /\ token # Undefined /\ token # <<>> /\ time < expiry

TokenExpiryLate(time, expires_in) == time + expires_in

\* Date.now() + (data.expires_in * 1000) - 60000
TokenExpiry(time, expires_in) ==
  IF expires_in = NaN THEN NaN ELSE time + expires_in - RefreshEarly

\* the call throws `error`
RequestRejected(call, error) == [call EXCEPT !.pc = "rejected", !.error = error]

\* getAccessToken when the cache does not serve: without credentials it
\* throws, else the OAuth request is sent and awaited
AskOAuth(call, pc) ==
  { RequestRejected(call, "credentials"),
    [call EXCEPT !.pc = pc, !.oauth = @ + 1] }

\* makeRequest is called: getAccessToken returns the cached token and the
\* API request is sent, or getAccessToken goes to the OAuth endpoint
MakeRequest(r) ==
  /\ reddit[r].pc = "idle"
  /\ IF CacheValid(accessToken, tokenExpiry, now)
     THEN reddit' = [reddit EXCEPT ![r] =
                       [@ EXCEPT !.pc = "api", !.token = accessToken, !.requests = @ + 1]]
     ELSE \E next \in AskOAuth(reddit[r], "oauth") :
            reddit' = [reddit EXCEPT ![r] = next]
  /\ UNCHANGED <<serviceVars, segVars, routeVars, pipe, crud, fetches, accessToken,
                 tokenExpiry>>

\* the OAuth endpoint has answered: not OK, and getAccessToken throws; OK,
\* and the token and its expiry are cached, and unless the token is missing
\* the (first or second) API request is sent with it
OAuthResponded(r) ==
  \E ok \in BOOLEAN, data \in OAuthData :
    /\ reddit[r].pc \in {"oauth", "reoauth"}
    /\ IF ~ok
       THEN /\ reddit' = [reddit EXCEPT ![r] = RequestRejected(@, "oauth")]
            /\ UNCHANGED <<accessToken, tokenExpiry>>
       ELSE /\ accessToken' = data.access_token
            /\ tokenExpiry' = TokenExpiry(now, data.expires_in)
            /\ reddit' =
                 [reddit EXCEPT ![r] =
                    IF data.access_token = Undefined
                    THEN RequestRejected(@, "no token")
                    ELSE [@ EXCEPT !.pc = IF @ = "oauth" THEN "api" ELSE "retry",
                                   !.token = data.access_token,
                                   !.expires_in = data.expires_in,
                                   !.requests = @ + 1]]
    /\ UNCHANGED <<serviceVars, segVars, routeVars, pipe, crud, fetches>>

\* the API has answered the first request: OK resolves; 401 clears the
\* cached token and asks for a new one; anything else throws
ApiResponded(r) ==
  \E status \in ApiStatuses :
    LET answered == [reddit[r] EXCEPT !.statuses = Append(@, status)]
    IN  /\ reddit[r].pc = "api"
        /\ IF status = 200
           THEN /\ reddit' = [reddit EXCEPT ![r] = [answered EXCEPT !.pc = "resolved"]]
                /\ UNCHANGED accessToken
           ELSE IF status = 401
           THEN /\ accessToken' = Null
                /\ \E next \in AskOAuth(answered, "reoauth") :
                     reddit' = [reddit EXCEPT ![r] = next]
           ELSE /\ reddit' = [reddit EXCEPT ![r] = RequestRejected(answered, "api")]
                /\ UNCHANGED accessToken
        /\ UNCHANGED <<serviceVars, segVars, routeVars, pipe, crud, fetches, tokenExpiry>>

RetryRespondedAgain(r) ==
  \E status \in ApiStatuses :
    LET answered == [reddit[r] EXCEPT !.statuses = Append(@, status)]
    IN  /\ reddit[r].pc = "retry"
        /\ reddit' = [reddit EXCEPT ![r] =
                        IF status = 200 THEN [answered EXCEPT !.pc = "resolved"]
                        ELSE IF status = 401 THEN [answered EXCEPT !.pc = "reoauth"]
                        ELSE RequestRejected(answered, "api")]
        /\ UNCHANGED <<serviceVars, segVars, routeVars, pipe, crud, fetches,
                       accessToken, tokenExpiry>>

\* the API has answered the retry: OK resolves, anything else throws
RetryResponded(r) ==
  \E status \in ApiStatuses :
    LET answered == [reddit[r] EXCEPT !.statuses = Append(@, status)]
    IN  /\ reddit[r].pc = "retry"
        /\ reddit' = [reddit EXCEPT ![r] =
                        IF status = 200 THEN [answered EXCEPT !.pc = "resolved"]
                        ELSE RequestRejected(answered, "api")]
        /\ UNCHANGED <<serviceVars, segVars, routeVars, pipe, crud, fetches,
                       accessToken, tokenExpiry>>

RedditNext ==
  \/ RedditTick
  \/ \E r \in RequestIds :
       \/ MakeRequest(r)
       \/ OAuthResponded(r)
       \/ ApiResponded(r)
       \/ RetryResponded(r)

SpecReddit == Init /\ [][RedditNext]_vars

(***************************************************************************)
(* C29                                                                     *)
(***************************************************************************)
\* a token is cached and its recorded expiry lies ahead
TokenCachedAndFresh ==
  accessToken \notin {Null, Undefined} /\ now < tokenExpiry

\* call r leaves getAccessToken with a token without the OAuth endpoint
\* having been contacted
ServedFromCache(r) ==
  reddit[r].pc = "idle" /\ reddit'[r].pc = "api"

\* call r receives a token from the OAuth endpoint
Refreshed(r) ==
  reddit[r].pc \in {"oauth", "reoauth"} /\ reddit'[r].pc \in {"api", "retry"}

\* the refresh of call r fails
RefreshFailed(r) ==
  reddit[r].pc \in {"oauth", "reoauth"} /\ reddit'[r].pc = "rejected"

\* C29: getAccessToken hands out the cached token without contacting the
\* OAuth endpoint exactly while a token is cached and now < tokenExpiry; a
\* refresh records as expiry the time the token is good for less 60 s; a
\* failed refresh hands out no token, sends no request and ends the call.
C29_CachedTokenOnlyWhileFresh ==
  [][ \A r \in RequestIds :
        /\ ServedFromCache(r) =>
             /\ TokenCachedAndFresh
             /\ reddit'[r].token = accessToken
             /\ reddit'[r].oauth = reddit[r].oauth
        /\ (reddit[r].pc = "idle" /\ reddit'[r].pc # "idle" /\ ~ServedFromCache(r)) =>
             ~TokenCachedAndFresh
        /\ Refreshed(r) =>
             /\ accessToken' = reddit'[r].token
             /\ tokenExpiry' = now + reddit'[r].expires_in - 1
        /\ RefreshFailed(r) =>
             /\ reddit'[r].token = reddit[r].token
             /\ reddit'[r].requests = reddit[r].requests
        /\ reddit[r].pc = "rejected" => reddit'[r] = reddit[r]
    ]_vars

\* a second call is served the token the first one cached, one minute
\* before its recorded expiry, while the first is still waiting for the API
C29_Witness ==
  /\ reddit["r1"].pc = "api" /\ reddit["r1"].oauth = 1
  /\ reddit["r2"].pc = "api" /\ reddit["r2"].oauth = 0
  /\ reddit["r2"].token = accessToken
  /\ now + 1 = tokenExpiry
  /\ now > 0

(***************************************************************************)
(* C30                                                                     *)
(***************************************************************************)
\* call r takes a step from the place pc
StepsFrom(r, pc) == reddit[r].pc = pc /\ reddit'[r] # reddit[r]

\* the status call r has just been answered with
LastStatus(r) == reddit'[r].statuses[Len(reddit'[r].statuses)]

\* C30: a makeRequest call sends at most two API requests.  A first answer
\* that is OK resolves the call; a 401 clears the cached token and asks the
\* OAuth endpoint for a new one (or throws without credentials); any other
\* answer throws.  The second request is sent only after a 401 and a
\* successful refresh, with the new token; its answer resolves the call if
\* OK and throws otherwise, a second 401 included.  A call that has
\* resolved or thrown does nothing more.
C30_AtMostOneRetry ==
  [][ \A r \in RequestIds :
        /\ reddit'[r].requests <= 2
        /\ StepsFrom(r, "api") =>
             /\ reddit'[r].requests = 1
             /\ Len(reddit'[r].statuses) = 1
             /\ LastStatus(r) = 200 => reddit'[r].pc = "resolved"
             /\ LastStatus(r) = 401 =>
                  /\ accessToken' = Null
                  /\ reddit'[r].pc \in {"reoauth", "rejected"}
                  /\ reddit'[r].pc = "reoauth" => reddit'[r].oauth = reddit[r].oauth + 1
             /\ LastStatus(r) \notin {200, 401} => reddit'[r].pc = "rejected"
        /\ reddit'[r].requests > reddit[r].requests =>
             \/ /\ reddit'[r].requests = 1
                /\ reddit[r].pc \in {"idle", "oauth"}
             \/ /\ reddit'[r].requests = 2
                /\ reddit[r].pc = "reoauth"
                /\ reddit[r].statuses = <<401>>
                /\ reddit'[r].token = accessToken'
                /\ reddit'[r].pc = "retry"
        /\ StepsFrom(r, "retry") =>
             /\ reddit'[r].requests = 2
             /\ Len(reddit'[r].statuses) = 2
             /\ reddit'[r].pc = IF LastStatus(r) = 200 THEN "resolved" ELSE "rejected"
        /\ reddit[r].pc \in {"resolved", "rejected"} => reddit'[r] = reddit[r]
    ]_vars

\* a call whose retry was answered 401 as well, and which then threw
C30_Witness ==
  \E r \in RequestIds :
    /\ reddit[r].statuses = <<401, 401>>
    /\ reddit[r].requests = 2
    /\ reddit[r].pc = "rejected"

====
